---- MODULE Spec2Model ----
(***************************************************************************)
(* Model of the CogniGrade front end: the part-label tree engine of        *)
(* announcements_1.js and the region capture / composition pipeline of     *)
(* crop-edit.js.                                                           *)
(*                                                                         *)
(* Strings are modelled as sequences of one-character strings, so that     *)
(* split, startsWith, substring, parseInt and number formatting are the    *)
(* operations the code performs and not identities.                        *)
(***************************************************************************)
EXTENDS Integers, Sequences, FiniteSets, TLC

\* ------------------------------------------------------------------------
\* Bounds of the model
\* ------------------------------------------------------------------------
\* Cap on the number of labels of the edited question (guards of the adds).
MaxLabels == 7
\* Longest list handed to sortPartLabels in SpecSort.
MaxSortLen == 3
\* Longest array handed to concatenateImages in SpecStitch.
MaxImages == 3
\* Selections released in one capture session.
MaxCrops == 2
\* Selections released for one question when only captures and deletions
\* are followed.
MaxCropsOneQuestion == 5
\* Pointer positions of one gesture, the press included.
MaxPathPoints == 2
\* Selections released in a session whose gestures are followed step by step.
MaxGestureCrops == 1
\* Selections released in a session of gestures and clicks on region controls.
MaxPointerCrops == 2
\* Finishes awaiting their image loads at the same time.
MaxInFlight == 1
\* Cap on the length of questionResponses (guard of the finish click).
MaxResponses == 3
\* Clicks on the submit button in one session.
MaxSubmits == 2
\* Requests issued in one session.
MaxCalls == 5

\* ------------------------------------------------------------------------
\* Program constants
\* ------------------------------------------------------------------------
\* "if (mainParts.length >= 6)"
MaxTopLevelParts == 6
\* "if (parentDepth >= 6)"
MaxDepth == 6
\* "if (directChildren.length >= 6)"
MaxChildren == 6

\* ------------------------------------------------------------------------
\* JavaScript strings
\* ------------------------------------------------------------------------
DigitChars == <<"0", "1", "2", "3", "4", "5", "6", "7", "8", "9">>

IsDigit(c) == c \in {"0", "1", "2", "3", "4", "5", "6", "7", "8", "9"}

DigitVal(c) ==
  CASE c = "0" -> 0 [] c = "1" -> 1 [] c = "2" -> 2 [] c = "3" -> 3
    [] c = "4" -> 4 [] c = "5" -> 5 [] c = "6" -> 6 [] c = "7" -> 7
    [] c = "8" -> 8 [] c = "9" -> 9

\* The value no number compares with.
NaN == "NaN"

\* TLC evaluates an operator's argument again at every use of the parameter;
\* a variable bound over a one-element set is evaluated once.  TheOne({e})
\* is e.
TheOne(S) == CHOOSE r \in S : TRUE

\* String(n), n a non-negative integer.
RECURSIVE ToStr(_)
ToStr(n) ==
  IF n < 10 THEN <<DigitChars[n + 1]>>
  ELSE ToStr(n \div 10) \o <<DigitChars[(n % 10) + 1]>>

\* Value of a run of digits read left to right.
RECURSIVE DigitsValue(_, _)
DigitsValue(s, acc) ==
  IF s = <<>> \/ ~IsDigit(Head(s)) THEN acc
  ELSE DigitsValue(Tail(s), 10 * acc + DigitVal(Head(s)))

\* isNaN(parseInt(s, 10)): no leading digit.
ParseIntIsNaN(s) == s = <<>> \/ ~IsDigit(Head(s))

\* parseInt(s, 10): the leading digits, NaN when there is none.
ParseInt(s) == IF ParseIntIsNaN(s) THEN NaN ELSE DigitsValue(s, 0)

\* Number(s): the whole string must be digits; Number("") is 0.
ToNumber(s) ==
  IF \A i \in 1..Len(s) : IsDigit(s[i]) THEN DigitsValue(s, 0) ELSE NaN

\* s.startsWith(p)
StartsWith(s, p) == Len(p) <= Len(s) /\ SubSeq(s, 1, Len(p)) = p

\* s.substring(n), n counted from 0
Substring(s, n) == SubSeq(s, n + 1, Len(s))

\* s.split('.'): cur is the piece being read, acc the pieces already cut
RECURSIVE SplitFrom(_, _, _)
SplitFrom(s, cur, acc) ==
  IF s = <<>> THEN Append(acc, cur)
  ELSE IF Head(s) = "." THEN SplitFrom(Tail(s), <<>>, Append(acc, cur))
  ELSE SplitFrom(Tail(s), Append(cur, Head(s)), acc)

Split(s) == SplitFrom(s, <<>>, <<>>)

\* s.lastIndexOf('.'), counted from 0; -1 when there is no dot
LastIndexOfDot(s) ==
  IF \A i \in 1..Len(s) : s[i] # "." THEN 0 - 1
  ELSE (CHOOSE k \in 1..Len(s) :
          s[k] = "." /\ \A j \in (k + 1)..Len(s) : s[j] # ".") - 1

\* the last element of a non-empty array (what pop returns)
Last(seq) == seq[Len(seq)]

\* array.join('.')
RECURSIVE JoinDots(_)
JoinDots(parts) ==
  IF parts = <<>> THEN <<>>
  ELSE IF Len(parts) = 1 THEN parts[1]
  ELSE parts[1] \o <<".">> \o JoinDots(Tail(parts))

\* ------------------------------------------------------------------------
\* State
\* ------------------------------------------------------------------------
VARIABLES
  \* announcements_1.js: the part editor of one question card
  questionNumber,     \* questionCard.dataset.questionNumber
  partLabels,         \* the .part-item elements of parts-<id>, in DOM order
  lastCall,           \* the operation last invoked and how it ended
  \* sortPartLabels applied to a given array
  sortIn, sortOut, sortDone,
  \* concatenateImages applied to a given array of loaded images
  stitchIn, stitchOut, stitchDone,
  \* crop-edit.js: the capture session of one document
  selectMode,           \* 'sequential' or 'dropdown'
  questions,            \* the exam's questions, in the order the server sent them
  currentQuestionIndex, \* 0-based, as in the code
  tempResponse,         \* the response under construction
  questionResponses,    \* the finished responses
  thumbnails,           \* the wrappers of #cropped-images, in DOM order
  regionSelections,     \* the markers with their kind and part selectors
  regionCounter,
  inflight,             \* saveCurrentSelections calls awaiting image loads
  submitShown,          \* whether #submit-btn is displayed
  processedResponses,   \* the payloads the last handleSubmit posted
  cropsMade,            \* number of selections released so far
  lastFinish,           \* what the last step of a finish assigned
  \* part_002 and crop-edit.js: the exam stage and the document role
  currentStage,         \* the exam stage fetchExamStage stored
  doc_stage,
  document_type,
  \* crop-edit.js and part_002: handleSubmit's requests
  runs,                 \* the handleSubmit invocations and where each stands
  calls,                \* the requests issued so far, with their outcome
  \* crop-edit.js: the selection gesture on a page overlay
  isSelecting,
  cutMode,              \* 'box' or 'freehand'
  startPoint,           \* startX, startY
  currentBoxRect,       \* <<>> for null, else the one rectangle
  pathPoints,
  trace,                \* where the pointer went since the button was pressed
  pointerDown,          \* whether the mouse button is held down
  \* crop-edit.js: the reorder dialog
  modalShown,           \* whether #edit-modal is displayed
  modalOrder,           \* the wrappers of #edit-order-container, in DOM order
  \* selections the session may release in all
  cropBudget,
  \* the part labels of the edited question as persisted and as read back
  part_labels,          \* question.part_labels, a JSON text; <<>> for null
  decoded               \* the list a page last decoded from part_labels

treeVars == <<questionNumber, partLabels, lastCall>>
sortVars == <<sortIn, sortOut, sortDone>>
stitchVars == <<stitchIn, stitchOut, stitchDone>>
cropVars == <<selectMode, questions, currentQuestionIndex, tempResponse,
              questionResponses, thumbnails, regionSelections, regionCounter,
              inflight, submitShown, processedResponses, cropsMade, lastFinish>>
stageVars == <<currentStage, doc_stage, document_type>>
netVars == <<runs, calls>>
gestureVars == <<isSelecting, cutMode, startPoint, currentBoxRect, pathPoints, trace,
                 pointerDown>>
modalVars == <<modalShown, modalOrder>>
limitVars == <<cropBudget>>
persistVars == <<part_labels, decoded>>
\* what the part editor, the sort, the stitch and the capture handlers leave alone
overlayVars == <<gestureVars, modalVars, limitVars, persistVars>>
pageVars == <<stageVars, netVars, overlayVars>>
\* what the handlers of the selection gesture leave alone besides the session
gestureRest == <<stageVars, netVars, modalVars, limitVars, persistVars>>
\* what the handlers of the reorder dialog leave alone besides the session
orderRest == <<stageVars, netVars, gestureVars, limitVars, persistVars>>
vars == <<treeVars, sortVars, stitchVars, cropVars, pageVars>>

\* op: the handler; ok: FALSE when it returned early (an alert was shown, or
\* the confirmation was declined); renamed: whether removePart renamed a label.
NoCall == [op |-> "none", ok |-> TRUE, renamed |-> FALSE, label |-> <<>>]

\* ------------------------------------------------------------------------
\* Label Tree Engine (announcements_1.js)
\* ------------------------------------------------------------------------
\* a.split('.').map(Number)
NumParts(label) ==
  TheOne({[i \in 1..Len(parts) |-> ToNumber(parts[i])] : parts \in {Split(label)}})

\* The comparator's loop from index i (counted from 1) on.
RECURSIVE CompareFrom(_, _, _)
CompareFrom(aParts, bParts, i) ==
  LET n == IF Len(aParts) >= Len(bParts) THEN Len(aParts) ELSE Len(bParts)
      aVal == IF i <= Len(aParts) THEN aParts[i] ELSE 0 - 1
      bVal == IF i <= Len(bParts) THEN bParts[i] ELSE 0 - 1
  IN  IF i > n THEN Len(aParts) - Len(bParts)
      ELSE IF aVal # bVal THEN aVal - bVal
      ELSE CompareFrom(aParts, bParts, i + 1)

\* A plausible slip: the labels compared as text, character by character
\* (what sort does without a comparator), which puts "2.10" before "2.2".
RECURSIVE ComparePartLabels_Text(_, _)
ComparePartLabels_Text(a, b) ==
  IF a = <<>> \/ b = <<>> THEN Len(a) - Len(b)
  ELSE IF Head(a) = Head(b) THEN ComparePartLabels_Text(Tail(a), Tail(b))
  ELSE IF Head(a) = "." THEN 0 - 1
  ELSE IF Head(b) = "." THEN 1
  ELSE DigitVal(Head(a)) - DigitVal(Head(b))

\* The comparator of sortPartLabels.
ComparePartLabels(a, b) ==
  TheOne({CompareFrom(aParts, bParts, 1) :
            aParts \in {NumParts(a)}, bParts \in {NumParts(b)}})

\* Array.prototype.sort is stable: insert x after the last element <= x.
RECURSIVE InsertLabel(_, _)
InsertLabel(sorted, x) ==
  IF sorted = <<>> THEN <<x>>
  ELSE IF ComparePartLabels(Last(sorted), x) <= 0 THEN Append(sorted, x)
  ELSE Append(InsertLabel(SubSeq(sorted, 1, Len(sorted) - 1), x), Last(sorted))

RECURSIVE sortPartLabels(_)
sortPartLabels(labels) ==
  IF labels = <<>> THEN <<>>
  ELSE TheOne({InsertLabel(front, Last(labels)) :
                 front \in {sortPartLabels(SubSeq(labels, 1, Len(labels) - 1))}})

\* labels.filter(label => label.startsWith(parentLabel + '.') &&
\*                        label.split('.').length === parentDepth + 1)
DirectChildren(labels, parentLabel) ==
  TheOne({LET Keep(l) == /\ StartsWith(l, parentLabel \o <<".">>)
                         /\ Len(Split(l)) = parentDepth + 1
          IN  SelectSeq(labels, Keep) :
            parentDepth \in {Len(Split(parentLabel))}})

\* Math.max over a non-empty array of numbers
MaxOf(nums) ==
  CHOOSE m \in {nums[i] : i \in 1..Len(nums)} :
    \A i \in 1..Len(nums) : nums[i] <= m

\* partLabels.filter(label => label.startsWith(`${parentQuestionNumber}.`))
MainParts(labels, qn) ==
  LET Keep(l) == StartsWith(l, qn \o <<".">>) IN SelectSeq(labels, Keep)

\* parseInt(parts[1], 10) || 0
SecondSegmentOr0(label) ==
  LET parts == Split(label) IN
  IF Len(parts) < 2 \/ ParseIntIsNaN(parts[2]) THEN 0 ELSE ParseInt(parts[2])

\* The label addSubpartToQuestion creates.
NewTopLevelLabel(labels, qn) ==
  LET mainParts == MainParts(labels, qn) IN
  IF Len(mainParts) = 0 THEN qn \o <<".", "1">>
  ELSE LET highest ==
             MaxOf([i \in 1..Len(mainParts) |-> SecondSegmentOr0(mainParts[i])])
       IN  qn \o <<".">> \o ToStr(highest + 1)

\* "if (mainParts.length >= 6)"
TopLevelLimitReached(labels, qn) ==
  Len(MainParts(labels, qn)) >= MaxTopLevelParts

\* addSubpartToQuestion: what it leaves in the DOM list and whether it added.
addSubpartToQuestionResult(labels, qn) ==
  IF TopLevelLimitReached(labels, qn)
  THEN [ok |-> FALSE, labels |-> labels]
  ELSE [ok |-> TRUE,
        labels |-> sortPartLabels(Append(labels, NewTopLevelLabel(labels, qn)))]

\* A plausible slip: a loop bound off by one (parentDepth > 6).
DepthLimitReached_OffByOne(parentLabel) == Len(Split(parentLabel)) > MaxDepth

\* "if (parentDepth >= 6)"
DepthLimitReached(parentLabel) == Len(Split(parentLabel)) >= MaxDepth

\* "if (directChildren.length >= 6)"
\* A plausible slip: every descendant of the parent is counted as a child.
ChildLimitReached_Descendants(labels, parentLabel) ==
  LET Under(l) == StartsWith(l, parentLabel \o <<".">>) IN
  Len(SelectSeq(labels, Under)) >= MaxChildren

ChildLimitReached(labels, parentLabel) ==
  Len(DirectChildren(labels, parentLabel)) >= MaxChildren

\* The forEach that finds the highest direct-child suffix (0 when none).
RECURSIVE HighestSubpart(_, _, _)
HighestSubpart(labels, parentLabel, highest) ==
  IF labels = <<>> THEN highest
  ELSE TheOne({HighestSubpart(Tail(labels), parentLabel, next) :
         next \in {LET label == Head(labels) IN
                   IF /\ label # parentLabel
                      /\ StartsWith(label, parentLabel \o <<".">>)
                      /\ Len(Split(label)) = Len(Split(parentLabel)) + 1
                      /\ ParseInt(Last(Split(label))) > highest
                   THEN ParseInt(Last(Split(label))) ELSE highest}})

\* The label addSubpart creates.
NewSubpartLabel(labels, parentLabel) ==
  parentLabel \o <<".">> \o ToStr(HighestSubpart(labels, parentLabel, 0) + 1)

\* A plausible slip: the new label is pushed before the limits are tested.
addSubpartResult_PushFirst(labels, parentLabel) ==
  LET pushed == sortPartLabels(Append(labels, NewSubpartLabel(labels, parentLabel)))
  IN  IF DepthLimitReached(parentLabel) \/ ChildLimitReached(labels, parentLabel)
      THEN [ok |-> FALSE, labels |-> pushed]
      ELSE [ok |-> TRUE, labels |-> pushed]

\* addSubpart: what it leaves in the DOM list and whether it added.
addSubpartResult(labels, parentLabel) ==
  IF DepthLimitReached(parentLabel) THEN [ok |-> FALSE, labels |-> labels]
  ELSE IF ChildLimitReached(labels, parentLabel)
  THEN [ok |-> FALSE, labels |-> labels]
  ELSE [ok |-> TRUE,
        labels |-> sortPartLabels(Append(labels, NewSubpartLabel(labels, parentLabel)))]

\* A plausible slip: only the sibling itself is renamed, not its subtree.
RenamePrefix_SiblingOnly(labels, oldPrefix, newPrefix) ==
  [i \in 1..Len(labels) |->
     IF labels[i] = oldPrefix THEN newPrefix ELSE labels[i]]

\* partLabels.map(pl => pl under oldPrefix ? newPrefix + rest : pl)
RenamePrefix(labels, oldPrefix, newPrefix) ==
  [i \in 1..Len(labels) |->
     IF labels[i] = oldPrefix \/ StartsWith(labels[i], oldPrefix \o <<".">>)
     THEN newPrefix \o Substring(labels[i], Len(oldPrefix))
     ELSE labels[i]]

\* siblings.sort((a, b) => last number of a - last number of b), stable
RECURSIVE InsertSibling(_, _)
InsertSibling(sorted, x) ==
  IF sorted = <<>> THEN <<x>>
  ELSE IF ParseInt(Last(Split(Last(sorted)))) - ParseInt(Last(Split(x))) <= 0
  THEN Append(sorted, x)
  ELSE Append(InsertSibling(SubSeq(sorted, 1, Len(sorted) - 1), x), Last(sorted))

RECURSIVE SortSiblings(_)
SortSiblings(siblings) ==
  IF siblings = <<>> THEN <<>>
  ELSE TheOne({InsertSibling(front, Last(siblings)) :
                 front \in {SortSiblings(SubSeq(siblings, 1, Len(siblings) - 1))}})

\* A plausible slip: the renumbering loop is left out.
RenumberSiblings_None(labels, siblings, parent, removedNum) == labels

\* siblings.forEach(sib => if its number > removedNum, move its subtree down)
RECURSIVE RenumberSiblings(_, _, _, _)
RenumberSiblings(labels, siblings, parent, removedNum) ==
  IF siblings = <<>> THEN labels
  ELSE TheOne({RenumberSiblings(next, Tail(siblings), parent, removedNum) :
         next \in {TheOne({IF sibNumber > removedNum
                           THEN RenamePrefix(labels,
                                             parent \o <<".">> \o ToStr(sibNumber),
                                             parent \o <<".">> \o ToStr(sibNumber - 1))
                           ELSE labels :
                      sibNumber \in {ParseInt(Last(Split(Head(siblings))))}})}})

\* partLabels.filter(pl => !(pl === labelToRemove || pl.startsWith(labelToRemove + '.')))
RemoveSubtree(labels, labelToRemove) ==
  LET Keep(pl) == ~(pl = labelToRemove \/ StartsWith(pl, labelToRemove \o <<".">>))
  IN  SelectSeq(labels, Keep)

\* removePart after the confirmation: the list it renders.
removePartResult(labels, labelToRemove) ==
  TheOne({IF lastDot > 0
          THEN TheOne({RenumberSiblings(kept, siblings, parent,
                                        ParseInt(Last(Split(labelToRemove)))) :
                         siblings \in {SortSiblings(DirectChildren(kept, parent))}})
          ELSE kept :
            kept \in {RemoveSubtree(labels, labelToRemove)},
            lastDot \in {LastIndexOfDot(labelToRemove)},
            parent \in {SubSeq(labelToRemove, 1, LastIndexOfDot(labelToRemove))}})

\* --- handlers ---

\* addSubpartToQuestion(questionId); the early return shows
\* "Maximum of 6 subparts reached for this question"
addSubpartToQuestionUpTo(cap) ==
  LET r == addSubpartToQuestionResult(partLabels, questionNumber) IN
  /\ r.ok => Len(partLabels) < cap
  /\ partLabels' = r.labels
  /\ lastCall' = [op |-> "addSubpartToQuestion", ok |-> r.ok, renamed |-> FALSE,
                  label |-> questionNumber]
  /\ UNCHANGED <<questionNumber, sortVars, stitchVars, cropVars, pageVars>>

addSubpartToQuestion == addSubpartToQuestionUpTo(MaxLabels)

\* addSubpart(questionId, parentLabel), parentLabel a part shown in the list;
\* the early returns show "No more sublevels are allowed" and
\* "Maximum of 6 subparts reached for this part"
addSubpartUpTo(cap) ==
  \E i \in 1..Len(partLabels) :
    LET r == addSubpartResult(partLabels, partLabels[i]) IN
    /\ r.ok => Len(partLabels) < cap
    /\ partLabels' = r.labels
    /\ lastCall' = [op |-> "addSubpart", ok |-> r.ok, renamed |-> FALSE,
                    label |-> partLabels[i]]
    /\ UNCHANGED <<questionNumber, sortVars, stitchVars, cropVars, pageVars>>

addSubpart == addSubpartUpTo(MaxLabels)

\* removePart(questionId, labelToRemove); confirmed is the answer to confirm()
removePart ==
  \E i \in 1..Len(partLabels), confirmed \in BOOLEAN :
    /\ partLabels' = IF confirmed THEN removePartResult(partLabels, partLabels[i])
                     ELSE partLabels
    /\ lastCall' = [op |-> "removePart", ok |-> confirmed,
                    renamed |-> confirmed /\
                                partLabels' # RemoveSubtree(partLabels, partLabels[i]),
                    label |-> partLabels[i]]
    /\ UNCHANGED <<questionNumber, sortVars, stitchVars, cropVars, pageVars>>

\* Question numbers of the edited card.
QuestionNumbers == {<<"2">>}

TreeInit ==
  /\ questionNumber \in QuestionNumbers
  /\ partLabels = <<>>
  /\ lastCall = NoCall

TreeIdle ==
  /\ questionNumber = <<"2">>
  /\ partLabels = <<>>
  /\ lastCall = NoCall

\* ------------------------------------------------------------------------
\* sortPartLabels on its own
\* ------------------------------------------------------------------------
\* Labels handed to sortPartLabels: the spec's example ("2", "2.2", "2.10"),
\* a small tree under question 2 and a label of another question.
SortUniverse ==
  { <<"2">>, <<"2", ".", "1">>, <<"2", ".", "2">>, <<"2", ".", "1", "0">>,
    <<"2", ".", "1", ".", "1">>, <<"2", ".", "1", ".", "2">>,
    <<"2", ".", "2", ".", "1">>, <<"1", "0", ".", "1">> }

SortInputs == UNION {[1..n -> SortUniverse] : n \in 0..MaxSortLen}

SortIdle == sortIn = <<>> /\ sortOut = <<>> /\ sortDone = FALSE

SortInit ==
  /\ sortIn \in SortInputs
  /\ sortOut = <<>>
  /\ sortDone = FALSE

\* labels = sortPartLabels(labels)
DoSort ==
  /\ ~sortDone
  /\ sortOut' = sortPartLabels(sortIn)
  /\ sortDone' = TRUE
  /\ UNCHANGED <<sortIn, treeVars, stitchVars, cropVars, pageVars>>

\* ------------------------------------------------------------------------
\* Composition Engine (crop-edit.js)
\* ------------------------------------------------------------------------
\* A loaded image: w, h are naturalWidth and naturalHeight, src names what the
\* raster shows (a caption text, a crop, or "canvas" for a composite) and
\* draws lists the drawImage calls that painted a composite, in call order.
\* A draw records twice its x argument in x2, because x is half an integer
\* when the widths differ by an odd number.
Raster(src, w, h) == [w |-> w, h |-> h, src |-> src, draws |-> <<>>]

\* Math.max(maxWidth, img.naturalWidth) folded over the first n images
RECURSIVE MaxWidthUpTo(_, _)
MaxWidthUpTo(images, n) ==
  IF n = 0 THEN 0
  ELSE LET m == MaxWidthUpTo(images, n - 1) IN
       IF images[n].w > m THEN images[n].w ELSE m

\* totalHeight / currentY after the first n images
RECURSIVE HeightUpTo(_, _)
HeightUpTo(images, n) ==
  IF n = 0 THEN 0 ELSE HeightUpTo(images, n - 1) + images[n].h

\* The same loop with "currentY += img.naturalHeight" left out.
concatenateImages_NoAdvance(images) ==
  LET maxWidth == MaxWidthUpTo(images, Len(images)) IN
  [w |-> maxWidth, h |-> HeightUpTo(images, Len(images)), src |-> <<"canvas">>,
   draws |-> [i \in 1..Len(images) |->
                [img |-> images[i], x2 |-> maxWidth - images[i].w, y |-> 0]]]

\* concatenateImages(images): the canvas it paints, read back as an image
concatenateImages(images) ==
  LET maxWidth == MaxWidthUpTo(images, Len(images)) IN
  [w |-> maxWidth, h |-> HeightUpTo(images, Len(images)), src |-> <<"canvas">>,
   draws |-> [i \in 1..Len(images) |->
                [img |-> images[i], x2 |-> maxWidth - images[i].w,
                 y |-> HeightUpTo(images, i - 1)]]]

\* Images handed to concatenateImages on its own: three widths, two of them
\* an odd number apart, and two heights.
StitchWidths == {2, 3, 6}
StitchHeights == {1, 2}
StitchImages == {Raster(<<"crop">>, w, h) : w \in StitchWidths, h \in StitchHeights}
StitchInputs == UNION {[1..n -> StitchImages] : n \in 1..MaxImages}

NoImage == Raster(<<"none">>, 0, 0)

StitchIdle == stitchIn = <<>> /\ stitchOut = NoImage /\ stitchDone = FALSE

StitchInit ==
  /\ stitchIn \in StitchInputs
  /\ stitchOut = NoImage
  /\ stitchDone = FALSE

\* stitchOut = concatenateImages(stitchIn)
DoStitch ==
  /\ ~stitchDone
  /\ stitchOut' = concatenateImages(stitchIn)
  /\ stitchDone' = TRUE
  /\ UNCHANGED <<stitchIn, treeVars, sortVars, cropVars, pageVars>>

\* ------------------------------------------------------------------------
\* Response Assembly Pipeline (crop-edit.js): the pure parts
\* ------------------------------------------------------------------------
\* ctx.measureText(text).width for the caption font: a fixed advance per
\* character of the template's literal part and of the inserted value.
GlyphAdvance == 14

MeasureText(text) == GlyphAdvance * Len(text)

\* createTextImage(text): a canvas of width metrics.width + 20 and height 40
\* showing the text
createTextImage(text) == Raster(text, MeasureText(text) + 20, 40)

\* `Question Number ${question_number}`
QNumText(question_number) == <<"Question Number ">> \o ToStr(question_number)

\* `Part ${partLabel}`
PText(partLabel) == <<"Part ">> \o partLabel

\* The image cropAndAddImage / cropWithPath puts in the sidebar for the k-th
\* selection of the session: the crop canvas read back as a data URL.
CropImage(k) == Raster(<<"crop">> \o ToStr(k), 40 + 10 * k, 10 * k)

\* The srcs of the wrappers whose region selects the given part and kind, in
\* wrapper order ("" selects the main bucket and is the empty string here).
RECURSIVE Bucket(_, _, _)
Bucket(wrappers, part, kind) ==
  IF wrappers = <<>> THEN <<>>
  ELSE LET first == Head(wrappers)
           rest == Bucket(Tail(wrappers), part, kind) IN
       IF first.part = part /\ first.kind = kind THEN <<first.src>> \o rest
       ELSE rest

\* processImageWithLabel(src, labelText)
processImageWithLabel(src, labelText) ==
  concatenateImages(<<createTextImage(labelText), src>>)

\* The text stack with the caption drawn last.
TextStack_CaptionLast(textImgs, labelText) ==
  IF Len(textImgs) > 0
  THEN <<concatenateImages(textImgs \o <<createTextImage(labelText)>>)>>
  ELSE <<>>

\* "if (bucket.Text.length > 0) ... [ concatenateImages([labelImg, ...textImgs]) ]"
TextStack(textImgs, labelText) ==
  IF Len(textImgs) > 0
  THEN <<concatenateImages(<<createTextImage(labelText)>> \o textImgs)>>
  ELSE <<>>

\* Every table or diagram stitched into one composite, like the text stack.
LabelEach_Merged(srcs, labelText) ==
  IF Len(srcs) > 0
  THEN <<concatenateImages(<<createTextImage(labelText)>> \o srcs)>>
  ELSE <<>>

\* "bucket.Table.map(src => processImageWithLabel(src, labelText))"
LabelEach(srcs, labelText) ==
  [i \in 1..Len(srcs) |-> processImageWithLabel(srcs[i], labelText)]

\* The three lists saveCurrentSelections assigns for one bucket.
Assembled(wrappers, part, labelText) ==
  [text_images |-> TextStack(Bucket(wrappers, part, "Text"), labelText),
   table_images |-> LabelEach(Bucket(wrappers, part, "Table"), labelText),
   diagram_images |-> LabelEach(Bucket(wrappers, part, "Diagram"), labelText)]

\* Whether a bucket makes saveCurrentSelections wait for image loads.
HasLoads(wrappers, part) == \E i \in 1..Len(wrappers) : wrappers[i].part = part

\* createTempResponse(questionIndex), the new object being obj
createTempResponse(qs, questionIndex, obj) ==
  LET question == qs[questionIndex + 1] IN
  [obj |-> obj,
   question_id |-> question.id,
   question_number |-> question.question_number,
   text_images |-> <<>>, table_images |-> <<>>, diagram_images |-> <<>>,
   parts |-> [i \in 1..Len(question.parts) |->
                [part_label |-> question.parts[i],
                 text_images |-> <<>>, table_images |-> <<>>,
                 diagram_images |-> <<>>]]]

\* JSON.parse(JSON.stringify(response)): a new object with the same content
DeepCopy(response) == [response EXCEPT !.obj = 0]

\* ------------------------------------------------------------------------
\* Region Capture Controller (crop-edit.js): the session state
\* ------------------------------------------------------------------------
\* The exam of the session: question 2 without parts, then question 1 with
\* part 1.1, in the order the server returned them.
ExamQuestions ==
  << [id |-> 11, question_number |-> 2, parts |-> <<>>],
     [id |-> 12, question_number |-> 1, parts |-> << <<"1", ".", "1">> >>] >>

Kinds == {"Text", "Table", "Diagram"}

\* Objects: tempResponse and the elements of questionResponses carry in obj
\* the identity of the JavaScript object they are (0: an object nothing else
\* refers to), so that a write through one reference shows through the others.
ObjsInUse(temp, list, pending) ==
  {temp.obj} \cup {list[i].obj : i \in 1..Len(list)}
             \cup {pending[i].target : i \in 1..Len(pending)}

\* The identity of a newly created object: the least one not in use.
FreshObj(used) == CHOOSE n \in 1..(Cardinality(used) + 1) :
                    n \notin used /\ \A k \in 1..(n - 1) : k \in used

\* No finish step has just run.
NoFinish == [op |-> "none", clicked |-> FALSE, wrappers |-> <<>>, number |-> 0,
             partsList |-> <<>>, assigned |-> <<>>, stored |-> <<>>]

\* What the synchronous start of saveCurrentSelections reads: the wrappers in
\* DOM order, each with the src of its img and the values of its region's
\* selectors ("region.partSelect?.value || ''"), the active question's number
\* and parts. assigned collects what this call assigns to the response;
\* clicked holds during the step of the click itself.
WrapperView(i) ==
  LET rid == thumbnails[i].regionId
      region == TheOne({r \in {regionSelections[j] : j \in 1..Len(regionSelections)} :
                          r.regionId = rid}) IN
  [src |-> thumbnails[i].src, kind |-> region.kind, part |-> region.part]

Snapshot ==
  [phase |-> "main", clicked |-> TRUE,
   wrappers |-> [i \in 1..Len(thumbnails) |-> WrapperView(i)],
   number |-> questions[currentQuestionIndex + 1].question_number,
   partsList |-> questions[currentQuestionIndex + 1].parts,
   target |-> 0, targetParts |-> 0,
   assigned |-> createTempResponse(questions, currentQuestionIndex, 0)]

\* Array.prototype.sort((a, b) => a.question_number - b.question_number),
\* which is stable
RECURSIVE InsertResponse(_, _)
InsertResponse(sorted, r) ==
  IF sorted = <<>> THEN <<r>>
  ELSE IF Last(sorted).question_number - r.question_number > 0
       THEN Append(InsertResponse(SubSeq(sorted, 1, Len(sorted) - 1), r), Last(sorted))
       ELSE Append(sorted, r)

RECURSIVE SortResponses(_)
SortResponses(list) ==
  IF list = <<>> THEN <<>>
  ELSE InsertResponse(SortResponses(SubSeq(list, 1, Len(list) - 1)), Last(list))

\* renderAllResponses without the sort.
renderAllResponses_NoSort(list) == list

\* renderAllResponses(): what it leaves in questionResponses
renderAllResponses(list) ==
  IF Len(list) = 0 THEN list ELSE SortResponses(list)

\* ------------------------------------------------------------------------
\* saveCurrentSelections and the finish handler (crop-edit.js)
\* ------------------------------------------------------------------------
\* "tempResponse.text_images = mainText; ..." on the object resp
WriteMain(resp, f) ==
  LET a == Assembled(f.wrappers, <<>>, QNumText(f.number)) IN
  [resp EXCEPT !.text_images = a.text_images,
               !.table_images = a.table_images,
               !.diagram_images = a.diagram_images]

\* What the callback of partsList.map assigns to partObj before its first
\* image load: everything when the part has no region, text_images = [] when
\* it has no Text region.
WritePartSync(part, f, idx) ==
  LET label == f.partsList[idx] IN
  IF ~HasLoads(f.wrappers, label)
  THEN [part EXCEPT !.text_images = <<>>, !.table_images = <<>>,
                    !.diagram_images = <<>>]
  ELSE IF Bucket(f.wrappers, label, "Text") = <<>>
       THEN [part EXCEPT !.text_images = <<>>]
       ELSE part

\* What it assigns once the images of the part have loaded.
WritePartLoaded(part, f, idx) ==
  LET label == f.partsList[idx]
      a == Assembled(f.wrappers, label, PText(label)) IN
  IF HasLoads(f.wrappers, label)
  THEN [part EXCEPT !.text_images = a.text_images,
                    !.table_images = a.table_images,
                    !.diagram_images = a.diagram_images]
  ELSE part

\* The assignments to partObj = resp.parts[idx] for idx, idx + 1, ...; beyond
\* limit partObj is undefined and the assignment throws instead.
RECURSIVE WriteParts(_, _, _, _, _)
WriteParts(resp, f, idx, loaded, limit) ==
  IF idx > Len(f.partsList) \/ idx > limit THEN resp
  ELSE WriteParts(
         [resp EXCEPT !.parts[idx] = IF loaded THEN WritePartLoaded(@, f, idx)
                                     ELSE WritePartSync(@, f, idx)],
         f, idx + 1, loaded, limit)

\* The assignments of one stage of saveCurrentSelections to one object:
\* "main" is lines 677-679 and the start of every part callback, "parts" the
\* rest of the part callbacks.
Apply(resp, f, stage, limit) ==
  IF stage = "main" THEN WriteParts(WriteMain(resp, f), f, 1, FALSE, limit)
  ELSE WriteParts(resp, f, 1, TRUE, limit)

\* The same assignments seen through every reference to object obj.
WriteObject(temp, list, obj, f, stage) ==
  [temp |-> IF temp.obj = obj THEN Apply(temp, f, stage, Len(temp.parts)) ELSE temp,
   list |-> [i \in 1..Len(list) |->
               IF list[i].obj = obj /\ obj # 0
               THEN Apply(list[i], f, stage, Len(list[i].parts))
               ELSE list[i]]]

PartsHaveLoads(f) ==
  \E idx \in 1..Len(f.partsList) : HasLoads(f.wrappers, f.partsList[idx])

RemoveAt(seq, k) == SubSeq(seq, 1, k - 1) \o SubSeq(seq, k + 1, Len(seq))

Report(op, f, stored) ==
  [op |-> op, clicked |-> f.clicked, wrappers |-> f.wrappers, number |-> f.number,
   partsList |-> f.partsList, assigned |-> f.assigned, stored |-> stored]

\* questionResponses.findIndex(r => r.question_id === id), 1-based, 0 for -1
FindResponse(list, id) ==
  IF \E i \in 1..Len(list) : list[i].question_id = id
  THEN CHOOSE i \in 1..Len(list) :
         /\ list[i].question_id = id
         /\ \A j \in 1..(i - 1) : list[j].question_id # id
  ELSE 0

\* The click handler after "await saveCurrentSelections()", dropdown branch
CompleteDropdown(temp, list, f, others) ==
  LET idx == FindResponse(list, temp.question_id)
      copy == DeepCopy(temp)
      pushed == IF idx > 0 THEN [list EXCEPT ![idx] = copy] ELSE Append(list, copy)
      rendered == renderAllResponses(pushed) IN
  /\ questionResponses' = rendered
  /\ tempResponse' = createTempResponse(questions, currentQuestionIndex,
                       FreshObj(ObjsInUse(copy, rendered, others)))
  /\ lastFinish' = Report("done", f, <<copy>>)
  /\ processedResponses' = <<>>
  /\ UNCHANGED <<currentQuestionIndex, submitShown>>

\* The same, sequential branch
CompleteSequential(temp, list, f, others) ==
  LET rendered == renderAllResponses(Append(list, temp)) IN
  /\ questionResponses' = rendered
  /\ currentQuestionIndex' = currentQuestionIndex + 1
  /\ IF currentQuestionIndex + 1 < Len(questions)
     THEN /\ tempResponse' = createTempResponse(questions, currentQuestionIndex + 1,
                               FreshObj(ObjsInUse(temp, rendered, others)))
          /\ UNCHANGED submitShown
     ELSE /\ tempResponse' = temp
          /\ submitShown' = TRUE
  /\ lastFinish' = Report("done", f, <<temp>>)
  /\ processedResponses' = <<>>

\* saveCurrentSelections has returned or thrown: the rest of the click handler
Complete(w, f, others) ==
  /\ inflight' = others
  /\ UNCHANGED <<selectMode, questions, cropsMade>>
  /\ IF Len(f.partsList) > f.targetParts
     THEN /\ tempResponse' = w.temp
          /\ questionResponses' = w.list
          /\ lastFinish' = Report("aborted", f, <<>>)
          /\ processedResponses' = <<>>
          /\ UNCHANGED <<currentQuestionIndex, thumbnails, regionSelections,
                         regionCounter, submitShown>>
     ELSE /\ thumbnails' = <<>>
          /\ regionSelections' = <<>>
          /\ regionCounter' = 1
          /\ IF selectMode = "dropdown"
             THEN CompleteDropdown(w.temp, w.list, f, others)
             ELSE CompleteSequential(w.temp, w.list, f, others)

\* saveCurrentSelections from line 677 on, the main images being loaded
AfterMain(f, others) ==
  LET g == [f EXCEPT !.phase = "parts",
                     !.target = tempResponse.obj,
                     !.targetParts = Len(tempResponse.parts),
                     !.assigned = Apply(@, f, "main", Len(tempResponse.parts))]
      w == WriteObject(tempResponse, questionResponses, tempResponse.obj, f, "main") IN
  IF PartsHaveLoads(f)
  THEN /\ tempResponse' = w.temp
       /\ questionResponses' = w.list
       /\ inflight' = Append(others, [g EXCEPT !.clicked = FALSE])
       /\ lastFinish' = Report("main", g, <<>>)
       /\ processedResponses' = <<>>
       /\ UNCHANGED <<selectMode, questions, currentQuestionIndex, thumbnails,
                      regionSelections, regionCounter, submitShown, cropsMade>>
  ELSE Complete(w, g, others)

\* The part callbacks after their image loads, then the click handler
AfterParts(f, others) ==
  LET g == [f EXCEPT !.assigned = Apply(@, f, "parts", f.targetParts)]
      w == WriteObject(tempResponse, questionResponses, f.target, f, "parts") IN
  Complete(w, g, others)

\* ------------------------------------------------------------------------
\* handleSubmit (crop-edit.js): the payloads
\* ------------------------------------------------------------------------
\* "(response.parts || []).flatMap(part => part[field] || [])"
RECURSIVE FlatMapParts(_, _)
FlatMapParts(parts, field) ==
  IF parts = <<>> THEN <<>>
  ELSE Head(parts)[field] \o FlatMapParts(Tail(parts), field)

\* The merge that leaves the part-level text out.
FinalTextImages_TopOnly(response) ==
  IF Len(response.text_images) > 0
  THEN <<concatenateImages(response.text_images)>>
  ELSE <<>>

\* A plausible slip: the part composites stitched as in the standard branch,
\* with no question caption put on top of them.
FinalTextImages_NoLabel(response) ==
  LET topLevel == response.text_images
      partsLevel == FlatMapParts(response.parts, "text_images") IN
  IF Len(topLevel) > 0 \/ Len(partsLevel) > 0
  THEN <<concatenateImages(topLevel \o partsLevel)>>
  ELSE <<>>

\* finalTextImages of one response
FinalTextImages(response) ==
  LET topLevel == response.text_images
      partsLevel == FlatMapParts(response.parts, "text_images") IN
  IF Len(topLevel) > 0 \/ Len(partsLevel) > 0
  THEN IF Len(topLevel) > 0
       THEN <<concatenateImages(topLevel \o partsLevel)>>
       ELSE <<concatenateImages(<<createTextImage(QNumText(response.question_number)),
                                  concatenateImages(partsLevel)>>)>>
  ELSE <<>>

\* A plausible slip: the loop over response.parts left out, so that only the
\* question-level tables and diagrams are posted.
Processed_TopLevelOnly(response, idx) ==
  [question_id |-> response.question_id,
   question_number |-> response.question_number,
   original_index |-> idx,
   text_images |-> FinalTextImages(response),
   table_images |-> response.table_images,
   diagram_images |-> response.diagram_images]

\* The object handleSubmit posts for questionResponses[idx]
Processed(response, idx) ==
  [question_id |-> response.question_id,
   question_number |-> response.question_number,
   original_index |-> idx,
   text_images |-> FinalTextImages(response),
   table_images |-> response.table_images
                      \o FlatMapParts(response.parts, "table_images"),
   diagram_images |-> response.diagram_images
                        \o FlatMapParts(response.parts, "diagram_images")]

\* A plausible slip: only a region that shows no number yet is numbered.
updateRegionNumbers_NewOnly(regions, wrappers) ==
  [j \in 1..Len(regions) |->
     LET at == {i \in 1..Len(wrappers) : wrappers[i].regionId = regions[j].regionId}
     IN  IF at = {} \/ regions[j].number # 0 THEN regions[j]
         ELSE [regions[j] EXCEPT !.number = CHOOSE i \in at : \A k \in at : k <= i]]

\* updateRegionNumbers: each wrapper of the sidebar, in DOM order, writes its
\* position into the number span of the first region with its id.
updateRegionNumbers(regions, wrappers) ==
  [j \in 1..Len(regions) |->
     LET at == {i \in 1..Len(wrappers) : wrappers[i].regionId = regions[j].regionId}
         first == \A k \in 1..(j - 1) : regions[k].regionId # regions[j].regionId
     IN  IF at = {} \/ ~first THEN regions[j]
         ELSE [regions[j] EXCEPT !.number = CHOOSE i \in at : \A k \in at : k <= i]]

\* ------------------------------------------------------------------------
\* The handlers of the capture session
\* ------------------------------------------------------------------------
Abs(n) == IF n < 0 THEN -n ELSE n

Min2(a, b) == IF a <= b THEN a ELSE b

\* Math.min and Math.max over the coordinates of a non-empty array of points
MinCoord(values) == CHOOSE v \in values : \A w \in values : v <= w

MaxCoord(values) == CHOOSE v \in values : \A w \in values : w <= v

\* getBoundingBox(points) for a non-empty array
getBoundingBox(points) ==
  LET xs == {points[i].x : i \in 1..Len(points)}
      ys == {points[i].y : i \in 1..Len(points)}
  IN  [minX |-> MinCoord(xs), minY |-> MinCoord(ys),
       width |-> MaxCoord(xs) - MinCoord(xs),
       height |-> MaxCoord(ys) - MinCoord(ys)]

\* regionRect, which endSelection hands on to place the marker: the candidate
\* rectangle in box mode, the bounding box of the outline in freehand mode;
\* <<>> where the gesture behind the selection is not followed.
regionRect ==
  IF cutMode = "box" THEN currentBoxRect
  ELSE IF pathPoints = <<>> THEN <<>>
  ELSE <<getBoundingBox(pathPoints)>>

\* "const displayScale = 1, renderScale = 2", which renderPage writes to
\* overlay.dataset.ratio and endSelection reads back.
renderScale == 2

\* A plausible slip: the new canvas is left at the default size of a canvas.
cropAndAddImage_DefaultSize(canvasMinX, canvasMinY, canvasWidth, canvasHeight) ==
  [sx |-> canvasMinX, sy |-> canvasMinY, sw |-> canvasWidth, sh |-> canvasHeight,
   w |-> 300, h |-> 150]

\* cropAndAddImage: the size of the new canvas (w, h) and the source
\* rectangle drawImage copies from the rendered page (sx, sy, sw, sh).
cropAndAddImage(canvasMinX, canvasMinY, canvasWidth, canvasHeight) ==
  [sx |-> canvasMinX, sy |-> canvasMinY, sw |-> canvasWidth, sh |-> canvasHeight,
   w |-> canvasWidth, h |-> canvasHeight]

\* cropWithPath: the new canvas has the size of the scaled bounding box, and
\* the page is drawn shifted by the box's scaled corner, inside the outline.
cropWithPath(points, ratio) ==
  LET bbox == getBoundingBox(points)
  IN  [sx |-> bbox.minX * ratio, sy |-> bbox.minY * ratio,
       sw |-> bbox.width * ratio, sh |-> bbox.height * ratio,
       w |-> bbox.width * ratio, h |-> bbox.height * ratio]

\* The crop endSelection takes for the candidate: <<>> where the gesture
\* behind the selection is not followed.
regionCrop ==
  IF regionRect = <<>> THEN <<>>
  ELSE IF cutMode = "box"
  THEN <<cropAndAddImage(currentBoxRect[1].minX * renderScale,
                         currentBoxRect[1].minY * renderScale,
                         currentBoxRect[1].width * renderScale,
                         currentBoxRect[1].height * renderScale)>>
  ELSE <<cropWithPath(pathPoints, renderScale)>>

\* "region.selectEl.style.pointerEvents = ..." and the like, for every region:
\* the value is set on the kind selector, the part selector and the marker's
\* delete button together.
SetPointerEvents(regions, value) ==
  [j \in 1..Len(regions) |-> [regions[j] EXCEPT !.pointerEvents = value]]

\* mouseup on a page overlay with a selection large enough: the controls of
\* the markers are enabled, then cropAndAddImage or cropWithPath, then
\* addRegionSelection and addImageToSidebar. With no active question
\* addRegionSelection throws after "regionCounter++".
Crop ==
  /\ cropsMade < cropBudget
  /\ cropsMade' = cropsMade + 1
  /\ regionCounter' = regionCounter + 1
  /\ IF currentQuestionIndex < Len(questions)
     THEN LET wrappers == Append(thumbnails, [regionId |-> regionCounter,
                                              src |-> CropImage(cropsMade + 1)])
              pushed == Append(SetPointerEvents(regionSelections, "auto"),
                          [regionId |-> regionCounter, kind |-> "Text",
                           part |-> <<>>, number |-> 0, pointerEvents |-> "auto",
                           rect |-> regionRect, crop |-> regionCrop,
                           options |-> questions[currentQuestionIndex + 1].parts])
          IN  /\ thumbnails' = wrappers
              /\ regionSelections' = updateRegionNumbers(pushed, wrappers)
     ELSE /\ regionSelections' = SetPointerEvents(regionSelections, "auto")
          /\ UNCHANGED thumbnails
  /\ lastFinish' = NoFinish
  /\ processedResponses' = <<>>
  /\ UNCHANGED <<selectMode, questions, currentQuestionIndex, tempResponse,
                 questionResponses, inflight, submitShown>>

\* The user picks another value in a region's kind selector, which takes
\* the mouse while its pointer-events are 'auto'.
SetKind ==
  \E i \in 1..Len(regionSelections), kind \in Kinds :
    /\ ~pointerDown
    /\ regionSelections[i].pointerEvents = "auto"
    /\ kind # regionSelections[i].kind
    /\ regionSelections' = [regionSelections EXCEPT ![i].kind = kind]
    /\ lastFinish' = NoFinish
    /\ processedResponses' = <<>>
    /\ UNCHANGED <<selectMode, questions, currentQuestionIndex, tempResponse,
                   questionResponses, thumbnails, regionCounter, inflight,
                   submitShown, cropsMade>>

\* The user picks another value in a region's part selector, which exists
\* when the question had parts: "" (Main) or one of the part labels. The
\* selector takes the mouse while its pointer-events are 'auto'.
SetPart ==
  \E i \in 1..Len(regionSelections) :
    \E part \in {<<>>} \cup {regionSelections[i].options[k] :
                              k \in 1..Len(regionSelections[i].options)} :
      /\ ~pointerDown
      /\ regionSelections[i].pointerEvents = "auto"
      /\ Len(regionSelections[i].options) > 0
      /\ part # regionSelections[i].part
      /\ regionSelections' = [regionSelections EXCEPT ![i].part = part]
      /\ lastFinish' = NoFinish
      /\ processedResponses' = <<>>
      /\ UNCHANGED <<selectMode, questions, currentQuestionIndex, tempResponse,
                     questionResponses, thumbnails, regionCounter, inflight,
                     submitShown, cropsMade>>

\* The controls that call deleteRegion: the marker's delete button, and the
\* delete span addImageToSidebar puts on the thumbnail.
DeleteControls == {"marker", "thumbnail"}

\* Click on a delete control: deleteRegion(regionId). The marker's button
\* takes the mouse while its pointer-events are 'auto'; the thumbnail's span
\* has no such style, and removes its wrapper itself before the call.
deleteRegion ==
  \E i \in 1..Len(regionSelections), control \in DeleteControls :
    LET id == regionSelections[i].regionId IN
    /\ ~pointerDown
    /\ control = "marker" => regionSelections[i].pointerEvents = "auto"
    /\ thumbnails' = SelectSeq(thumbnails, LAMBDA t : t.regionId # id)
    /\ regionSelections' = updateRegionNumbers(RemoveAt(regionSelections, i),
                                               thumbnails')
    /\ lastFinish' = NoFinish
    /\ processedResponses' = <<>>
    /\ UNCHANGED <<selectMode, questions, currentQuestionIndex, tempResponse,
                   questionResponses, regionCounter, inflight, submitShown, cropsMade>>

\* Click on #part-btn: saveCurrentSelections up to its first image load.
\* With no active question "questions[currentQuestionIndex].parts" throws.
FinishClick ==
  /\ Len(inflight) < MaxInFlight
  /\ Len(questionResponses) + Len(inflight) < MaxResponses
  /\ IF currentQuestionIndex >= Len(questions)
     THEN /\ lastFinish' = [NoFinish EXCEPT !.op = "threw", !.clicked = TRUE]
          /\ processedResponses' = <<>>
          /\ UNCHANGED <<selectMode, questions, currentQuestionIndex, tempResponse,
                         questionResponses, thumbnails, regionSelections,
                         regionCounter, inflight, submitShown,
                         cropsMade>>
     ELSE IF HasLoads(Snapshot.wrappers, <<>>)
          THEN /\ inflight' = Append(inflight, [Snapshot EXCEPT !.clicked = FALSE])
               /\ lastFinish' = Report("clicked", Snapshot, <<>>)
               /\ processedResponses' = <<>>
               /\ UNCHANGED <<selectMode, questions, currentQuestionIndex,
                              tempResponse, questionResponses, thumbnails,
                              regionSelections, regionCounter, submitShown, cropsMade>>
          ELSE AfterMain(Snapshot, inflight)

\* The caption and the region images of the main bucket have loaded.
MainLoaded ==
  \E k \in 1..Len(inflight) :
    /\ inflight[k].phase = "main"
    /\ AfterMain(inflight[k], RemoveAt(inflight, k))

\* The captions and the region images of the part buckets have loaded.
PartsLoaded ==
  \E k \in 1..Len(inflight) :
    /\ inflight[k].phase = "parts"
    /\ AfterParts(inflight[k], RemoveAt(inflight, k))

\* change on #question-selector, which is shown in dropdown mode
SelectQuestion ==
  \E idx \in 0..(Len(questions) - 1) :
    /\ selectMode = "dropdown"
    /\ idx # currentQuestionIndex
    /\ tempResponse' = createTempResponse(questions, idx,
                         FreshObj(ObjsInUse(DeepCopy(tempResponse),
                                            questionResponses, inflight)))
    /\ currentQuestionIndex' = idx
    /\ thumbnails' = <<>>
    /\ regionSelections' = <<>>
    /\ regionCounter' = 1
    /\ lastFinish' = NoFinish
    /\ processedResponses' = <<>>
    /\ UNCHANGED <<selectMode, questions, questionResponses, inflight,
                   submitShown, cropsMade>>

\* questions.findIndex(q => q.id === id), 0-based
QuestionIndexOf(qs, id) == (CHOOSE i \in 1..Len(qs) : qs[i].id = id) - 1

\* Click on the Redo button of a rendered response; confirmed answers confirm()
Redo ==
  \E i \in 1..Len(questionResponses), confirmed \in BOOLEAN :
    LET id == questionResponses[i].question_id
        kept == renderAllResponses(
                  SelectSeq(questionResponses, LAMBDA r : r.question_id # id))
        idx == QuestionIndexOf(questions, id) IN
    /\ lastFinish' = NoFinish
    /\ processedResponses' = <<>>
    /\ IF confirmed
       THEN /\ questionResponses' = kept
            /\ thumbnails' = <<>>
            /\ regionSelections' = <<>>
            /\ regionCounter' = 1
            /\ currentQuestionIndex' = idx
            /\ tempResponse' = createTempResponse(questions, idx,
                                 FreshObj(ObjsInUse(DeepCopy(tempResponse),
                                                    kept, inflight)))
       ELSE UNCHANGED <<questionResponses, thumbnails, regionSelections,
                        regionCounter, currentQuestionIndex, tempResponse>>
    /\ UNCHANGED <<selectMode, questions, inflight, submitShown, cropsMade>>

\* Click on #submit-btn, shown in dropdown mode and, in sequential mode, once
\* the last question has been finished: the payloads handleSubmit builds and
\* posts, one per response.
handleSubmit ==
  /\ selectMode = "dropdown" \/ submitShown
  /\ processedResponses' = [i \in 1..Len(questionResponses) |->
                              Processed(questionResponses[i], i - 1)]
  /\ lastFinish' = NoFinish
  /\ UNCHANGED <<selectMode, questions, currentQuestionIndex, tempResponse,
                 questionResponses, thumbnails, regionSelections, regionCounter,
                 inflight, submitShown, cropsMade>>

\* The session once load_pdf_in_cropper has the questions and the role.
CropIdle ==
  /\ selectMode = "sequential"
  /\ questions = ExamQuestions
  /\ currentQuestionIndex = 0
  /\ tempResponse = createTempResponse(ExamQuestions, 0, 1)
  /\ questionResponses = <<>>
  /\ thumbnails = <<>>
  /\ regionSelections = <<>>
  /\ regionCounter = 1
  /\ inflight = <<>>
  /\ submitShown = FALSE
  /\ processedResponses = <<>>
  /\ cropsMade = 0
  /\ lastFinish = NoFinish

CropInit ==
  /\ selectMode \in {"sequential", "dropdown"}
  /\ questions = ExamQuestions
  /\ currentQuestionIndex = 0
  /\ tempResponse = createTempResponse(ExamQuestions, 0, 1)
  /\ questionResponses = <<>>
  /\ thumbnails = <<>>
  /\ regionSelections = <<>>
  /\ regionCounter = 1
  /\ inflight = <<>>
  /\ submitShown = FALSE
  /\ processedResponses = <<>>
  /\ cropsMade = 0
  /\ lastFinish = NoFinish

\* ------------------------------------------------------------------------
\* Exam stage and document role (part_002, crop-edit.js)
\* ------------------------------------------------------------------------
\* Exam stages the stage request is taken to answer with: this many below
\* zero, and the stages from zero up to the largest.
MaxStagesBelowZero == 40
MaxStage == 80

StageUniverse == (0 - MaxStagesBelowZero)..MaxStage

\* const stages = [...]
stages == <<"question_paper", "marking_scheme", "solution_script", "answer_script">>

getDocStage(current_stage) ==
  IF current_stage <= 2 THEN 0
  ELSE IF current_stage = 3 THEN 1
  ELSE IF current_stage = 4 THEN 2
  ELSE IF current_stage >= 5 /\ current_stage <= 8 THEN 3
  ELSE -1

\* stages[index]: undefined outside the array.
StagesAt(index) ==
  IF index \in 0..(Len(stages) - 1) THEN stages[index + 1] ELSE "undefined"

\* The get-info callback of load_pdf_in_cropper; is_professor is the role
\* the server reports.
LoadInfo ==
  \E is_professor \in BOOLEAN :
    /\ document_type = "null"
    /\ doc_stage' = getDocStage(currentStage)
    /\ document_type' = StagesAt(getDocStage(currentStage))
    /\ selectMode' = IF is_professor THEN "dropdown" ELSE "sequential"
    /\ UNCHANGED <<currentStage, questions, currentQuestionIndex, tempResponse,
                   questionResponses, thumbnails, regionSelections,
                   regionCounter, inflight, submitShown, processedResponses,
                   cropsMade, lastFinish>>

\* "let currentStage = 0; let doc_stage = 0;" and "let document_type = null;"
StageIdle ==
  /\ currentStage = 0
  /\ doc_stage = 0
  /\ document_type = "null"

\* The page once fetchExamStage has stored the exam's stage.
StageInit ==
  /\ currentStage \in StageUniverse
  /\ doc_stage = 0
  /\ document_type = "null"

NetIdle ==
  /\ runs = <<>>
  /\ calls = <<>>

\* ------------------------------------------------------------------------
\* Submission requests (crop-edit.js handleSubmit, part_002 postExamStage)
\* ------------------------------------------------------------------------
\* How a request ends: the fetch fails, or it resolves with a success or
\* an error status and a body that parses as JSON or does not.
Outcomes == {"ok_json", "ok_text", "error_json", "error_text", "network_error"}

\* response.ok
StatusOk(outcome) == outcome \in {"ok_json", "ok_text"}

\* "fetch(...).then(r => r.json())" and "await procRes.json()" fulfil
JsonParses(outcome) == outcome \in {"ok_json", "error_json"}

\* "await postExamStage(7)"
GradingStarted == 7

NewCall(kind, run) == [kind |-> kind, run |-> run, outcome |-> "pending"]

\* The request postExamStage(stage) sends.
postExamStage(stage, run) ==
  [kind |-> "stage", run |-> run, outcome |-> "pending", exam_stage |-> stage]

\* Positions of the calls of one kind that a handleSubmit invocation issued.
CallsOf(cs, kind, run) ==
  {i \in 1..Len(cs) : cs[i].kind = kind /\ cs[i].run = run}

\* A plausible slip: the processing step runs for every document type.
ExtractGate_Always(type) == TRUE

\* "if (document_type == 'answer_script')"
ExtractGate(type) == type = "answer_script"

\* handleSubmit after "await Promise.all(submitPromises)": the processing
\* request is issued for an answer script, else the success alert is shown.
AfterSubmits(run, rs, cs) ==
  IF ExtractGate(document_type)
  THEN [runs |-> [rs EXCEPT ![run] = "extracting"],
        calls |-> Append(cs, NewCall("process-text-images", run))]
  ELSE [runs |-> [rs EXCEPT ![run] = "done"], calls |-> cs]

\* The click on #submit-btn: handleSubmit builds the payloads and posts one
\* request per finished response.
SubmitClick ==
  /\ Len(runs) < MaxSubmits
  /\ handleSubmit
  /\ LET run == Len(runs) + 1
         posts == [i \in 1..Len(processedResponses') |->
                     NewCall("question_response", run)]
         next == IF posts = <<>>
                 THEN AfterSubmits(run, Append(runs, "posting"), calls)
                 ELSE [runs |-> Append(runs, "posting"), calls |-> calls \o posts]
     IN  /\ Len(next.calls) <= MaxCalls
         /\ runs' = next.runs /\ calls' = next.calls
  /\ UNCHANGED stageVars

\* One per-question request ends. A rejected fetch or an unparsable body
\* rejects Promise.all, and handleSubmit ends there; once every request of
\* the invocation has fulfilled, handleSubmit goes on.
SubmitSettled ==
  \E i \in 1..Len(calls), outcome \in Outcomes :
    /\ calls[i].kind = "question_response" /\ calls[i].outcome = "pending"
    /\ LET cs == [calls EXCEPT ![i].outcome = outcome]
           run == calls[i].run
           next ==
             IF runs[run] # "posting" THEN [runs |-> runs, calls |-> cs]
             ELSE IF ~JsonParses(outcome)
             THEN [runs |-> [runs EXCEPT ![run] = "threw"], calls |-> cs]
             ELSE IF \A j \in CallsOf(cs, "question_response", run) :
                       cs[j].outcome # "pending"
             THEN AfterSubmits(run, runs, cs)
             ELSE [runs |-> runs, calls |-> cs]
       IN  /\ Len(next.calls) <= MaxCalls
           /\ runs' = next.runs /\ calls' = next.calls
    /\ UNCHANGED <<cropVars, stageVars>>

\* The processing request ends: on a parsed body the success alert is shown
\* and postExamStage(7) posts the stage, else the catch shows the failure.
ExtractSettled ==
  \E i \in 1..Len(calls), outcome \in Outcomes :
    /\ calls[i].kind = "process-text-images" /\ calls[i].outcome = "pending"
    /\ LET cs == [calls EXCEPT ![i].outcome = outcome]
           run == calls[i].run
       IN  IF JsonParses(outcome)
           THEN /\ Len(calls) < MaxCalls
                /\ runs' = [runs EXCEPT ![run] = "staging"]
                /\ calls' = Append(cs, postExamStage(GradingStarted, run))
           ELSE /\ runs' = [runs EXCEPT ![run] = "extract_failed"]
                /\ calls' = cs
    /\ UNCHANGED <<cropVars, stageVars>>

\* The stage request of postExamStage ends: a failure is logged only, and
\* for stage 7 gradeExam posts the grading request.
StageSettled ==
  \E i \in 1..Len(calls), outcome \in Outcomes :
    /\ calls[i].kind = "stage" /\ calls[i].outcome = "pending"
    /\ LET cs == [calls EXCEPT ![i].outcome = outcome]
           run == calls[i].run
       IN  /\ Len(calls) < MaxCalls
           /\ runs' = [runs EXCEPT ![run] = "done"]
           /\ calls' = IF calls[i].exam_stage = GradingStarted
                       THEN Append(cs, NewCall("grade-exam", run))
                       ELSE cs
    /\ UNCHANGED <<cropVars, stageVars>>

\* The grading request of gradeExam ends: on a success status with a parsed
\* body updateExamResult posts add-result, whose reply is logged only.
GradeSettled ==
  \E i \in 1..Len(calls), outcome \in Outcomes :
    /\ calls[i].kind = "grade-exam" /\ calls[i].outcome = "pending"
    /\ LET cs == [calls EXCEPT ![i].outcome = outcome]
       IN  /\ Len(calls) < MaxCalls
           /\ calls' = IF outcome = "ok_json"
                       THEN Append(cs, NewCall("add-result", calls[i].run))
                       ELSE cs
    /\ UNCHANGED <<runs, cropVars, stageVars>>

\* One stage for each role the callback of load_pdf_in_cropper can set.
LoadedStages ==
  {s \in StageUniverse :
     \A t \in StageUniverse :
       StagesAt(getDocStage(t)) = StagesAt(getDocStage(s)) => s <= t}

\* The page once load_pdf_in_cropper has the questions, the role and the
\* document type.
SubmitInit ==
  /\ CropInit
  /\ currentStage \in LoadedStages
  /\ doc_stage = getDocStage(currentStage)
  /\ document_type = StagesAt(doc_stage)
  /\ NetIdle

\* "let isSelecting = false, startX = 0, startY = 0; ... pathPoints = [];
\* let cutMode = 'box'; let currentBoxRect = null;"
GestureIdle ==
  /\ isSelecting = FALSE
  /\ cutMode = "box"
  /\ startPoint = [x |-> 0, y |-> 0]
  /\ currentBoxRect = <<>>
  /\ pathPoints = <<>>
  /\ trace = <<>>
  /\ pointerDown = FALSE

\* The reorder dialog before it is first opened.
ModalIdle ==
  /\ modalShown = FALSE
  /\ modalOrder = <<>>

LimitIdle == cropBudget = MaxCrops

\* No save has persisted labels and no page has decoded any.
PersistIdle ==
  /\ part_labels = <<>>
  /\ decoded = [by |-> "none", labels |-> <<>>]

OverlayIdle == GestureIdle /\ ModalIdle /\ LimitIdle /\ PersistIdle

PageIdle == StageIdle /\ NetIdle /\ OverlayIdle

\* ------------------------------------------------------------------------
\* Selection gesture (crop-edit.js)
\* ------------------------------------------------------------------------
\* Where the pointer can be on the overlay, in display pixels: the pairs of
\* points span the extents 4 x 9, 9 x 4 and 5 x 5.
Points ==
  {[x |-> 0, y |-> 0], [x |-> 4, y |-> 9], [x |-> 9, y |-> 4]}

\* "width < 5 || height < 5"
MinSelectionSize == 5

\* "!currentBoxRect || currentBoxRect.width < 5 || currentBoxRect.height < 5"
BoxTooSmall(rect) ==
  \/ rect = <<>>
  \/ rect[1].width < MinSelectionSize
  \/ rect[1].height < MinSelectionSize

\* "!bbox || bbox.width < 5 || bbox.height < 5": of an empty array the
\* extents are -Infinity, which is below 5.
PathTooSmall(points) ==
  \/ points = <<>>
  \/ getBoundingBox(points).width < MinSelectionSize
  \/ getBoundingBox(points).height < MinSelectionSize

\* What a handler of the gesture leaves of the capture session.
GestureKeepsSession ==
  /\ lastFinish' = NoFinish
  /\ processedResponses' = <<>>
  /\ UNCHANGED <<selectMode, questions, currentQuestionIndex, tempResponse,
                 questionResponses, thumbnails, regionSelections, regionCounter,
                 inflight, submitShown, cropsMade>>

\* A plausible slip: the handler clears the markers (clearRegionMarkers)
\* where it should set the style of their controls.
GestureSetsControls_Clears(value) ==
  /\ regionSelections' = <<>>
  /\ regionCounter' = 1
  /\ lastFinish' = NoFinish
  /\ processedResponses' = <<>>
  /\ UNCHANGED <<selectMode, questions, currentQuestionIndex, tempResponse,
                 questionResponses, thumbnails, inflight, submitShown, cropsMade>>

\* "regionSelections.forEach(region => { ... pointerEvents = value })" in a
\* handler that changes nothing else of the capture session.
GestureSetsControls(value) ==
  /\ regionSelections' = SetPointerEvents(regionSelections, value)
  /\ lastFinish' = NoFinish
  /\ processedResponses' = <<>>
  /\ UNCHANGED <<selectMode, questions, currentQuestionIndex, tempResponse,
                 questionResponses, thumbnails, regionCounter, inflight,
                 submitShown, cropsMade>>

\* mousedown on a page overlay: the controls of every marker are disabled.
startSelection ==
  \E p \in Points :
    /\ ~pointerDown
    /\ pointerDown' = TRUE
    /\ isSelecting' = TRUE
    /\ trace' = <<p>>
    /\ IF cutMode = "box"
       THEN startPoint' = p /\ UNCHANGED pathPoints
       ELSE pathPoints' = <<p>> /\ UNCHANGED startPoint
    /\ UNCHANGED <<cutMode, currentBoxRect>>
    /\ GestureSetsControls("none")

\* mousemove on a page overlay
updateSelection ==
  \E p \in Points :
    /\ isSelecting
    /\ Len(trace) < MaxPathPoints
    /\ trace' = Append(trace, p)
    /\ IF cutMode = "box"
       THEN /\ currentBoxRect' =
                 <<[minX |-> Min2(startPoint.x, p.x),
                    minY |-> Min2(startPoint.y, p.y),
                    width |-> Abs(p.x - startPoint.x),
                    height |-> Abs(p.y - startPoint.y)]>>
            /\ UNCHANGED pathPoints
       ELSE /\ Len(pathPoints) < MaxPathPoints
            /\ pathPoints' = Append(pathPoints, p)
            /\ UNCHANGED currentBoxRect
    /\ UNCHANGED <<isSelecting, cutMode, startPoint, pointerDown>>
    /\ GestureKeepsSession

\* mouseup on a page overlay. The controls of every marker are enabled. A
\* candidate below the minimum size returns early; else the crop is taken
\* and the region added, and the candidate is reset unless
\* addRegionSelection threw.
endSelection ==
  /\ pointerDown
  /\ pointerDown' = FALSE
  /\ isSelecting
  /\ isSelecting' = FALSE
  /\ trace' = <<>>
  /\ UNCHANGED <<cutMode, startPoint>>
  /\ IF cutMode = "box"
     THEN IF BoxTooSmall(currentBoxRect)
          THEN GestureSetsControls("auto") /\ UNCHANGED <<currentBoxRect, pathPoints>>
          ELSE /\ Crop
               /\ currentBoxRect' = IF currentQuestionIndex < Len(questions)
                                    THEN <<>> ELSE currentBoxRect
               /\ UNCHANGED pathPoints
     ELSE IF PathTooSmall(pathPoints)
          THEN GestureSetsControls("auto") /\ UNCHANGED <<currentBoxRect, pathPoints>>
          ELSE /\ Crop
               /\ pathPoints' = IF currentQuestionIndex < Len(questions)
                                THEN <<>> ELSE pathPoints
               /\ UNCHANGED currentBoxRect

\* change of a cut-mode radio button
setCutMode ==
  \E mode \in {"box", "freehand"} :
    /\ mode # cutMode
    /\ cutMode' = mode
    /\ UNCHANGED <<isSelecting, startPoint, currentBoxRect, pathPoints, trace,
                   pointerDown>>
    /\ GestureKeepsSession

\* The mouse button goes down outside the page overlays, on nothing that
\* listens: no handler runs.
pressElsewhere ==
  /\ ~pointerDown
  /\ pointerDown' = TRUE
  /\ UNCHANGED <<isSelecting, cutMode, startPoint, currentBoxRect, pathPoints, trace>>
  /\ GestureKeepsSession

\* The mouse button is released outside the page overlays: renderPage put
\* the mouseup listener on the overlay, so no handler runs.
releaseElsewhere ==
  /\ pointerDown
  /\ pointerDown' = FALSE
  /\ UNCHANGED <<isSelecting, cutMode, startPoint, currentBoxRect, pathPoints, trace>>
  /\ GestureKeepsSession

\* ------------------------------------------------------------------------
\* Reorder dialog (crop-edit.js)
\* ------------------------------------------------------------------------
\* The sequence with the element at position from moved to position to.
MoveTo(seq, from, to) ==
  LET rest == [k \in 1..(Len(seq) - 1) |-> IF k < from THEN seq[k] ELSE seq[k + 1]]
  IN  [k \in 1..Len(seq) |->
         IF k < to THEN rest[k] ELSE IF k = to THEN seq[from] ELSE rest[k - 1]]

\* Click on #edit-order-btn: the dialog is shown with a clone of every
\* wrapper of the sidebar.
openEditOrderModal ==
  /\ modalShown' = TRUE
  /\ modalOrder' = thumbnails
  /\ lastFinish' = NoFinish
  /\ processedResponses' = <<>>
  /\ UNCHANGED <<selectMode, questions, currentQuestionIndex, tempResponse,
                 questionResponses, thumbnails, regionSelections, regionCounter,
                 inflight, submitShown, cropsMade>>

\* The user drags one clone of the dialog to another position (Sortable).
dragInModal ==
  \E from, to \in 1..Len(modalOrder) :
    /\ modalShown
    /\ from # to
    /\ modalOrder' = MoveTo(modalOrder, from, to)
    /\ lastFinish' = NoFinish
    /\ processedResponses' = <<>>
    /\ UNCHANGED <<modalShown, selectMode, questions, currentQuestionIndex,
                   tempResponse, questionResponses, thumbnails, regionSelections,
                   regionCounter, inflight, submitShown, cropsMade>>

\* Click on #save-edit-order. The sidebar is emptied; the next statement
\* reads modalContent, which is a local constant of other functions and not
\* in scope here, so a ReferenceError ends the handler: nothing is appended,
\* no number is updated and the dialog stays open.
saveEditOrder ==
  /\ modalShown
  /\ thumbnails' = <<>>
  /\ lastFinish' = NoFinish
  /\ processedResponses' = <<>>
  /\ UNCHANGED <<modalShown, modalOrder, selectMode, questions,
                 currentQuestionIndex, tempResponse, questionResponses,
                 regionSelections, regionCounter, inflight, submitShown,
                 cropsMade>>

\* Click on the dialog's close button or outside the dialog.
closeModal ==
  /\ modalShown
  /\ modalShown' = FALSE
  /\ lastFinish' = NoFinish
  /\ processedResponses' = <<>>
  /\ UNCHANGED <<modalOrder, selectMode, questions, currentQuestionIndex,
                 tempResponse, questionResponses, thumbnails, regionSelections,
                 regionCounter, inflight, submitShown, cropsMade>>

\* ------------------------------------------------------------------------
\* Persisted part labels (announcements_1.js, crop-edit.js)
\* ------------------------------------------------------------------------
Quote == "\""

\* The elements of a JSON array of strings, separated by commas. A label
\* holds digits and dots only, so no character is escaped.
RECURSIVE JsonItems(_)
JsonItems(labels) ==
  IF labels = <<>> THEN <<>>
  ELSE <<Quote>> \o Head(labels) \o <<Quote>>
         \o (IF Len(labels) > 1 THEN <<",">> ELSE <<>>)
         \o JsonItems(Tail(labels))

\* JSON.stringify of the partLabels array, as it stands in the request body
\* of saveAllChanges.
JsonStringify(labels) == <<"[">> \o JsonItems(labels) \o <<"]">>

\* The text the server keeps as part_labels and returns with the questions:
\* the JSON-encoded list it was sent.
persist(partLabelsJson) == partLabelsJson

\* JSON.parse of an array of strings, from position i: a quote opens or
\* closes a string, the closing bracket ends the array.
RECURSIVE JsonParseFrom(_, _, _, _, _)
JsonParseFrom(text, i, inString, cur, acc) ==
  IF i > Len(text) THEN acc
  ELSE IF inString
  THEN IF text[i] = Quote
       THEN JsonParseFrom(text, i + 1, FALSE, <<>>, Append(acc, cur))
       ELSE JsonParseFrom(text, i + 1, TRUE, Append(cur, text[i]), acc)
  ELSE IF text[i] = Quote THEN JsonParseFrom(text, i + 1, TRUE, <<>>, acc)
  ELSE IF text[i] = "]" THEN acc
  ELSE JsonParseFrom(text, i + 1, FALSE, <<>>, acc)

\* JSON.parse(text): of null it is null, which is no array.
JsonParse(text) ==
  IF text = <<>> THEN [array |-> FALSE, items |-> <<>>]
  ELSE [array |-> TRUE, items |-> JsonParseFrom(text, 2, FALSE, <<>>, <<>>)]

\* renderQuestions: "if (question.part_labels) { partLabels =
\* JSON.parse(...); if (!Array.isArray(partLabels)) partLabels = []; }",
\* and no part item otherwise.
DecodeForEditor(text) ==
  IF text = <<>> THEN <<>>
  ELSE IF JsonParse(text).array THEN JsonParse(text).items ELSE <<>>

\* A plausible slip: "&&" for "||", which yields [] for every array.
DecodeForCropper_And(text) == <<>>

\* load_pdf_in_cropper: "parts: JSON.parse(q.part_labels) || []"
DecodeForCropper(text) ==
  IF JsonParse(text).array THEN JsonParse(text).items ELSE <<>>

\* saveAllChanges: the labels of the card's part items are sent, and the
\* server persists them.
saveAllChanges ==
  /\ part_labels' = persist(JsonStringify(partLabels))
  /\ decoded' = [by |-> "none", labels |-> <<>>]
  /\ UNCHANGED treeVars

\* The editor page or the capture page fetches the questions and decodes
\* part_labels.
loadQuestions ==
  \E by \in {"editor", "cropper"} :
    /\ decoded' = [by |-> by,
                   labels |-> IF by = "editor" THEN DecodeForEditor(part_labels)
                              ELSE DecodeForCropper(part_labels)]
    /\ UNCHANGED <<part_labels, treeVars>>

\* The editor holding one of the bounded label lists.
PersistInit ==
  /\ questionNumber = <<"2">>
  /\ partLabels \in SortInputs
  /\ lastCall = NoCall

\* What the steps of persisting and reading back leave alone.
persistRest ==
  <<sortVars, stitchVars, cropVars, stageVars, netVars, gestureVars, modalVars,
    limitVars>>

\* ------------------------------------------------------------------------
\* Specifications
\* ------------------------------------------------------------------------
Init == TreeInit /\ SortIdle /\ StitchIdle /\ CropIdle /\ PageIdle

Next == addSubpartToQuestion \/ addSubpart \/ removePart

\* The part editor of one question card.
Spec == Init /\ [][Next]_vars

InitSort == TreeIdle /\ SortInit /\ StitchIdle /\ CropIdle /\ PageIdle

NextSort == DoSort

\* sortPartLabels applied once to each bounded input.
SpecSort == InitSort /\ [][NextSort]_vars

InitStitch == TreeIdle /\ SortIdle /\ StitchInit /\ CropIdle /\ PageIdle

NextStitch == DoStitch

\* concatenateImages applied once to each bounded input.
SpecStitch == InitStitch /\ [][NextStitch]_vars

InitCrop == TreeIdle /\ SortIdle /\ StitchIdle /\ CropInit /\ PageIdle

NextCrop ==
  \/ (Crop /\ UNCHANGED <<treeVars, sortVars, stitchVars, pageVars>>)
  \/ (SetKind /\ UNCHANGED <<treeVars, sortVars, stitchVars, pageVars>>)
  \/ (SetPart /\ UNCHANGED <<treeVars, sortVars, stitchVars, pageVars>>)
  \/ (deleteRegion /\ UNCHANGED <<treeVars, sortVars, stitchVars, pageVars>>)
  \/ (FinishClick /\ UNCHANGED <<treeVars, sortVars, stitchVars, pageVars>>)
  \/ (MainLoaded /\ UNCHANGED <<treeVars, sortVars, stitchVars, pageVars>>)
  \/ (PartsLoaded /\ UNCHANGED <<treeVars, sortVars, stitchVars, pageVars>>)
  \/ (SelectQuestion /\ UNCHANGED <<treeVars, sortVars, stitchVars, pageVars>>)
  \/ (Redo /\ UNCHANGED <<treeVars, sortVars, stitchVars, pageVars>>)
  \/ (handleSubmit /\ UNCHANGED <<treeVars, sortVars, stitchVars, pageVars>>)

\* A capture session: regions, finishes, redos and the final submission.
SpecCrop == InitCrop /\ [][NextCrop]_vars

InitStage ==
  TreeIdle /\ SortIdle /\ StitchIdle /\ CropIdle /\ StageInit /\ NetIdle /\ OverlayIdle

NextStage == LoadInfo /\ UNCHANGED <<treeVars, sortVars, stitchVars, netVars, overlayVars>>

\* getDocStage applied once to each stage of the universe.
SpecStage == InitStage /\ [][NextStage]_vars

InitSubmit == TreeIdle /\ SortIdle /\ StitchIdle /\ SubmitInit /\ OverlayIdle

NextSubmit ==
  \/ (FinishClick /\ UNCHANGED <<treeVars, sortVars, stitchVars, pageVars>>)
  \/ (SubmitClick /\ UNCHANGED <<treeVars, sortVars, stitchVars, overlayVars>>)
  \/ (SubmitSettled /\ UNCHANGED <<treeVars, sortVars, stitchVars, overlayVars>>)
  \/ (ExtractSettled /\ UNCHANGED <<treeVars, sortVars, stitchVars, overlayVars>>)
  \/ (StageSettled /\ UNCHANGED <<treeVars, sortVars, stitchVars, overlayVars>>)
  \/ (GradeSettled /\ UNCHANGED <<treeVars, sortVars, stitchVars, overlayVars>>)

\* The questions finished without captures, then the submission requests.
SpecSubmit == InitSubmit /\ [][NextSubmit]_vars

InitNumbers ==
  /\ TreeIdle /\ SortIdle /\ StitchIdle /\ CropInit /\ StageIdle /\ NetIdle
  /\ GestureIdle /\ ModalIdle /\ PersistIdle
  /\ cropBudget = MaxCropsOneQuestion

NextNumbers ==
  \/ (Crop /\ UNCHANGED <<treeVars, sortVars, stitchVars, pageVars>>)
  \/ (deleteRegion /\ UNCHANGED <<treeVars, sortVars, stitchVars, pageVars>>)

\* Captures and deletions within the first question.
SpecNumbers == InitNumbers /\ [][NextNumbers]_vars

InitGesture ==
  /\ TreeIdle /\ SortIdle /\ StitchIdle /\ CropInit /\ StageIdle /\ NetIdle
  /\ GestureIdle /\ ModalIdle /\ PersistIdle
  /\ cropBudget = MaxGestureCrops

NextGesture ==
  \/ (startSelection /\ UNCHANGED <<treeVars, sortVars, stitchVars, gestureRest>>)
  \/ (updateSelection /\ UNCHANGED <<treeVars, sortVars, stitchVars, gestureRest>>)
  \/ (endSelection /\ UNCHANGED <<treeVars, sortVars, stitchVars, gestureRest>>)
  \/ (setCutMode /\ UNCHANGED <<treeVars, sortVars, stitchVars, gestureRest>>)
  \/ (releaseElsewhere /\ UNCHANGED <<treeVars, sortVars, stitchVars, gestureRest>>)
  \/ (FinishClick /\ UNCHANGED <<treeVars, sortVars, stitchVars, pageVars>>)
  \/ (MainLoaded /\ UNCHANGED <<treeVars, sortVars, stitchVars, pageVars>>)

\* Selection gestures on the page, and the finishes that end a question.
SpecGesture == InitGesture /\ [][NextGesture]_vars

InitOrder == TreeIdle /\ SortIdle /\ StitchIdle /\ CropInit /\ PageIdle

NextOrder ==
  \/ (Crop /\ UNCHANGED <<treeVars, sortVars, stitchVars, pageVars>>)
  \/ (openEditOrderModal /\ UNCHANGED <<treeVars, sortVars, stitchVars, orderRest>>)
  \/ (dragInModal /\ UNCHANGED <<treeVars, sortVars, stitchVars, orderRest>>)
  \/ (saveEditOrder /\ UNCHANGED <<treeVars, sortVars, stitchVars, orderRest>>)
  \/ (closeModal /\ UNCHANGED <<treeVars, sortVars, stitchVars, orderRest>>)
  \/ (FinishClick /\ UNCHANGED <<treeVars, sortVars, stitchVars, pageVars>>)
  \/ (MainLoaded /\ UNCHANGED <<treeVars, sortVars, stitchVars, pageVars>>)

\* Captures, the reorder dialog and the finishes that follow.
SpecOrder == InitOrder /\ [][NextOrder]_vars

\* Coordinates of the pointer positions of the gestures in flight.
GridCoords == {0, 3, 10}

GridPoints == {[x |-> a, y |-> b] : a, b \in GridCoords}

\* A gesture after the press at one position and a move to another.
GestureInFlight ==
  \E p, q \in GridPoints :
    /\ p # q
    /\ isSelecting = TRUE
    /\ pointerDown = TRUE
    /\ cutMode \in {"box", "freehand"}
    /\ trace = <<p, q>>
    /\ startPoint = IF cutMode = "box" THEN p ELSE [x |-> 0, y |-> 0]
    /\ currentBoxRect = IF cutMode = "box"
                        THEN <<[minX |-> Min2(p.x, q.x), minY |-> Min2(p.y, q.y),
                                width |-> Abs(q.x - p.x), height |-> Abs(q.y - p.y)]>>
                        ELSE <<>>
    /\ pathPoints = IF cutMode = "box" THEN <<>> ELSE <<p, q>>

InitRelease ==
  /\ TreeIdle /\ SortIdle /\ StitchIdle /\ CropInit /\ StageIdle /\ NetIdle
  /\ GestureInFlight /\ ModalIdle /\ PersistIdle
  /\ cropBudget = MaxGestureCrops

NextRelease == endSelection /\ UNCHANGED <<treeVars, sortVars, stitchVars, gestureRest>>

\* The release of each gesture in flight.
SpecRelease == InitRelease /\ [][NextRelease]_vars

InitPersist ==
  /\ PersistInit /\ SortIdle /\ StitchIdle /\ CropIdle /\ StageIdle /\ NetIdle
  /\ GestureIdle /\ ModalIdle /\ LimitIdle /\ PersistIdle

NextPersist ==
  \/ (saveAllChanges /\ UNCHANGED persistRest)
  \/ (loadQuestions /\ UNCHANGED persistRest)

\* Each bounded label list saved and read back.
SpecPersist == InitPersist /\ [][NextPersist]_vars

InitPointer ==
  /\ TreeIdle /\ SortIdle /\ StitchIdle /\ CropInit /\ StageIdle /\ NetIdle
  /\ GestureIdle /\ ModalIdle /\ PersistIdle
  /\ cropBudget = MaxPointerCrops

NextPointer ==
  \/ (startSelection /\ UNCHANGED <<treeVars, sortVars, stitchVars, gestureRest>>)
  \/ (updateSelection /\ UNCHANGED <<treeVars, sortVars, stitchVars, gestureRest>>)
  \/ (endSelection /\ UNCHANGED <<treeVars, sortVars, stitchVars, gestureRest>>)
  \/ (pressElsewhere /\ UNCHANGED <<treeVars, sortVars, stitchVars, gestureRest>>)
  \/ (releaseElsewhere /\ UNCHANGED <<treeVars, sortVars, stitchVars, gestureRest>>)
  \/ (SetKind /\ UNCHANGED <<treeVars, sortVars, stitchVars, pageVars>>)
  \/ (SetPart /\ UNCHANGED <<treeVars, sortVars, stitchVars, pageVars>>)
  \/ (deleteRegion /\ UNCHANGED <<treeVars, sortVars, stitchVars, pageVars>>)
  \/ (SelectQuestion /\ UNCHANGED <<treeVars, sortVars, stitchVars, pageVars>>)

\* Box gestures with the mouse button followed on and off the page, and the
\* clicks on the controls of the regions.
SpecPointer == InitPointer /\ [][NextPointer]_vars

\* ------------------------------------------------------------------------
\* Vocabulary of the claims: labels read as sequences of numbers
\* ------------------------------------------------------------------------
Segs(label) == NumParts(label)

FormatSegs(segs) == JoinDots([i \in 1..Len(segs) |-> ToStr(segs[i])])

IsSegPrefix(p, q) == Len(p) <= Len(q) /\ SubSeq(q, 1, Len(p)) = p

\* The labels of the list, as number sequences, with their multiplicity kept.
SegList(labels) == [i \in 1..Len(labels) |-> Segs(labels[i])]

\* Every number sequence that is the question or a label or a prefix of one.
ParentsIn(segList, qn) ==
  {Segs(qn)} \cup
  UNION {{SubSeq(segList[i], 1, k) : k \in 1..Len(segList[i])} :
           i \in 1..Len(segList)}

\* Positions of the direct children of parent p.
ChildPositions(segList, p) ==
  {i \in 1..Len(segList) :
     Len(segList[i]) = Len(p) + 1 /\ IsSegPrefix(p, segList[i])}

\* For every parent the direct-child suffixes are 1..k, each used once.
SiblingsContiguous(labels, qn) ==
  \E segList \in {SegList(labels)} :
    \A p \in ParentsIn(segList, qn) :
      \E kids \in {ChildPositions(segList, p)} :
        /\ {segList[i][Len(p) + 1] : i \in kids} = 1..Cardinality(kids)

\* What removing the label L = P.r must leave: L and its subtree gone, every
\* P.s.rest with s > r renamed to P.(s-1).rest, everything else and the order
\* of the list kept.
ExpectedAfterRemove(labels, L) ==
  LET Ls == Segs(L)
      d == Len(Ls)
      Keep(l) == ~IsSegPrefix(Ls, Segs(l))
      kept == SelectSeq(labels, Keep)
      Moved(l) ==
        LET sg == Segs(l) IN
        IF /\ Len(sg) >= d
           /\ SubSeq(sg, 1, d - 1) = SubSeq(Ls, 1, d - 1)
           /\ sg[d] > Ls[d]
        THEN FormatSegs([sg EXCEPT ![d] = @ - 1])
        ELSE l
  IN  [i \in 1..Len(kept) |-> Moved(kept[i])]

L21 == <<"2", ".", "1">>
L22 == <<"2", ".", "2">>
L23 == <<"2", ".", "3">>
L221 == <<"2", ".", "2", ".", "1">>
L231 == <<"2", ".", "3", ".", "1">>

\* ------------------------------------------------------------------------
\* C1..C5: the label tree engine
\* ------------------------------------------------------------------------

\* C1: after any sequence of addTopLevelPart, addSubpart and removePart from
\* the empty list, for every parent (the question number included) the
\* direct-child suffixes are exactly 1..k for some k >= 0, with no gap and no
\* suffix used twice.
C1_SiblingContiguity == SiblingsContiguous(partLabels, questionNumber)

\* A removal that had later siblings to renumber has just happened.
C1_Witness ==
  /\ lastCall.op = "removePart" /\ lastCall.renamed
  /\ Len(partLabels) >= 3

\* C2: removePart(L), L = P.r, leaves exactly the list with L and its subtree
\* gone, every P.s.rest with s > r renamed to P.(s-1).rest and everything
\* else, and the order, unchanged (2.2 out of 2.1, 2.2, 2.3, 2.3.1 leaves
\* 2.1, 2.2, 2.2.1); a declined confirmation leaves the list unchanged.
C2_RemoveRenumbersSubtrees ==
  /\ [](/\ \A i \in 1..Len(partLabels) :
             removePartResult(partLabels, partLabels[i])
               = ExpectedAfterRemove(partLabels, partLabels[i])
        /\ removePartResult(<<L21, L22, L23, L231>>, L22) = <<L21, L22, L221>>)
  /\ [][lastCall'.op = "removePart" /\ ~lastCall'.ok
          => partLabels' = partLabels]_vars

\* The spec's example has just run: 2.3 and 2.3.1 became 2.2 and 2.2.1.
C2_Witness ==
  /\ lastCall.op = "removePart" /\ lastCall.renamed
  /\ partLabels = <<L21, L22, L221>>

\* C3: every label has at most 6 segments and every parent, the question
\* included, has at most 6 direct children.
C3_DepthAndBranchingLimits ==
  \E segList \in {SegList(partLabels)} :
    /\ \A i \in 1..Len(segList) : Len(segList[i]) <= 6
    /\ \A p \in ParentsIn(segList, questionNumber) :
         Cardinality(ChildPositions(segList, p)) <= 6

\* A part at the deepest level exists and an addSubpart was just refused.
C3_Witness ==
  /\ lastCall.op = "addSubpart" /\ ~lastCall.ok
  /\ \E i \in 1..Len(partLabels) : Len(Segs(partLabels[i])) = 6

\* C4: an addTopLevelPart or addSubpart that is refused because a limit is
\* met leaves the label list exactly as it was.
C4_RejectedAddNoMutation ==
  [][(lastCall'.op \in {"addSubpartToQuestion", "addSubpart"} /\ ~lastCall'.ok)
       => partLabels' = partLabels]_vars

\* An addSubpart on a part that already has 6 children was just refused.
C4_Witness ==
  /\ lastCall.op = "addSubpart" /\ ~lastCall.ok
  /\ \A i \in 1..Len(partLabels) : Len(Segs(partLabels[i])) < 6
  /\ \E i \in 1..Len(partLabels) :
       Cardinality(ChildPositions(SegList(partLabels), Segs(partLabels[i]))) = 6

\* a sorts strictly before b: a is a proper prefix of b, or a has the lower
\* number at the first segment where they differ.
SegBefore(a, b) ==
  \/ Len(a) < Len(b) /\ IsSegPrefix(a, b)
  \/ \E k \in 1..Len(a) :
       /\ k <= Len(b)
       /\ SubSeq(a, 1, k - 1) = SubSeq(b, 1, k - 1)
       /\ a[k] < b[k]

\* out holds the elements of in, each as often as in does.
IsPermutation(out, in) ==
  /\ Len(out) = Len(in)
  /\ \A x \in {in[i] : i \in 1..Len(in)} :
       Cardinality({i \in 1..Len(in) : in[i] = x})
         = Cardinality({i \in 1..Len(out) : out[i] = x})

NoDuplicates(seq) ==
  \A i, j \in 1..Len(seq) : seq[i] = seq[j] => i = j

\* C5: sortPartLabels returns a permutation of its input in the numeric
\* segment order, a missing segment below any present one: no label follows
\* one it sorts before, so a label precedes all its descendants, and in a
\* duplicate-free list a parent is immediately followed by its first child;
\* ["2.10", "2.2", "2"] sorts to ["2", "2.2", "2.10"].
C5_SortNumericSegments ==
  sortDone =>
    /\ IsPermutation(sortOut, sortIn)
    /\ \A i, j \in 1..Len(sortOut) :
         i < j => ~SegBefore(Segs(sortOut[j]), Segs(sortOut[i]))
    /\ \A i, j \in 1..Len(sortOut) :
         (Segs(sortOut[i]) # Segs(sortOut[j])
            /\ IsSegPrefix(Segs(sortOut[i]), Segs(sortOut[j]))) => i < j
    /\ NoDuplicates(sortIn) =>
         \A i, j \in 1..Len(sortOut) :
           Segs(sortOut[j]) = Append(Segs(sortOut[i]), 1) => j = i + 1
    /\ sortIn = <<<<"2", ".", "1", "0">>, <<"2", ".", "2">>, <<"2">>>>
         => sortOut = <<<<"2">>, <<"2", ".", "2">>, <<"2", ".", "1", "0">>>>

\* The spec's example has been sorted.
C5_Witness ==
  /\ sortDone
  /\ sortIn = <<<<"2", ".", "1", "0">>, <<"2", ".", "2">>, <<"2">>>>

\* Sum of the heights of the images before position i, counted directly.
RECURSIVE SumHeightsBefore(_, _)
SumHeightsBefore(images, i) ==
  IF i <= 1 THEN 0
  ELSE images[i - 1].h + SumHeightsBefore(images, i - 1)

\* C6: concatenateImages of N images yields a raster as wide as the widest
\* input and as high as the sum of the heights; image i is drawn, in input
\* order, at y = h1 + ... + h(i-1) and at x = (max width - wi) / 2, so no two
\* inputs overlap vertically.
C6_StitchGeometry ==
  stitchDone =>
    LET n == Len(stitchIn) IN
    /\ \A i \in 1..n : stitchOut.w >= stitchIn[i].w
    /\ \E i \in 1..n : stitchOut.w = stitchIn[i].w
    /\ stitchOut.h = SumHeightsBefore(stitchIn, n + 1)
    /\ Len(stitchOut.draws) = n
    /\ \A i \in 1..n :
         /\ stitchOut.draws[i].img = stitchIn[i]
         /\ stitchOut.draws[i].y = SumHeightsBefore(stitchIn, i)
         /\ stitchOut.draws[i].x2 = stitchOut.w - stitchIn[i].w
    /\ \A i, j \in 1..n :
         i < j => stitchOut.draws[i].y + stitchIn[i].h <= stitchOut.draws[j].y

\* Three images of different widths and heights have been stitched, one of
\* them centred on a half pixel.
C6_Witness ==
  /\ stitchDone
  /\ Len(stitchIn) = 3
  /\ stitchIn[1].w = 3 /\ stitchIn[2].w = 6 /\ stitchIn[3].w = 2
  /\ stitchIn[1].h = 2 /\ stitchIn[2].h = 1
  /\ stitchOut.draws[1].x2 = 3
  /\ stitchOut.draws[3].y = 3

\* ------------------------------------------------------------------------
\* Vocabulary of the claims about composites
\* ------------------------------------------------------------------------
\* The rasters a composite shows, top to bottom: the src of every image that
\* is not itself a composite, in drawing order.
RECURSIVE Leaves(_), LeavesOfDraws(_)
Leaves(img) ==
  IF Len(img.draws) = 0 THEN <<img.src>> ELSE LeavesOfDraws(img.draws)

LeavesOfDraws(draws) ==
  IF Len(draws) = 0 THEN <<>>
  ELSE Leaves(draws[1].img) \o LeavesOfDraws(Tail(draws))

LeavesOfAll(images) ==
  LeavesOfDraws([i \in 1..Len(images) |-> [img |-> images[i]]])

IsQuestionCaption(src) == src[1] = "Question Number "
IsPartCaption(src) == src[1] = "Part "
IsCropSrc(src) == src[1] = "crop"

\* The caption names question number n / the part labelled label.
NamesQuestion(src, n) ==
  IsQuestionCaption(src) /\ ~ParseIntIsNaN(Tail(src)) /\ ParseInt(Tail(src)) = n
NamesPart(src, label) == IsPartCaption(src) /\ Tail(src) = label

\* The regions a finish found in the bucket of a part ("" for main) with a
\* kind, in thumbnail order, as the srcs of their crops.
RegionsOf(wrappers, part, kind) ==
  LET sel == SelectSeq(wrappers, LAMBDA v : v.part = part /\ v.kind = kind) IN
  [i \in 1..Len(sel) |-> sel[i].src.src]

\* The wrappers of the sidebar as the user sees them: thumbnail order, each
\* with the current values of its region's selectors.
SidebarNow ==
  [i \in 1..Len(thumbnails) |->
     LET r == CHOOSE r \in {regionSelections[j] : j \in 1..Len(regionSelections)} :
                r.regionId = thumbnails[i].regionId IN
     [src |-> thumbnails[i].src, kind |-> r.kind, part |-> r.part]]

\* One caption for the bucket followed by the given regions.
IsCaptioned(img, part, number, regions) ==
  LET leaves == Leaves(img) IN
  /\ Len(leaves) = Len(regions) + 1
  /\ IF part = <<>> THEN NamesQuestion(leaves[1], number)
     ELSE NamesPart(leaves[1], part)
  /\ Tail(leaves) = regions

\* The text composites of the first n parts, in part order.
RECURSIVE PartTexts(_, _)
PartTexts(parts, n) ==
  IF n = 0 THEN <<>> ELSE PartTexts(parts, n - 1) \o parts[n].text_images

\* A payload's text_images against the response it was built from: empty when
\* the response has no Text composite, otherwise one image that stacks the
\* crops of every question-level and part-level Text composite, in order.
MergesAllText(r, p) ==
  LET imgs == r.text_images \o PartTexts(r.parts, Len(r.parts)) IN
  /\ p.question_id = r.question_id
  /\ IF Len(imgs) = 0 THEN p.text_images = <<>>
     ELSE /\ Len(p.text_images) = 1
          /\ SelectSeq(Leaves(p.text_images[1]), IsCropSrc)
               = SelectSeq(LeavesOfAll(imgs), IsCropSrc)

IsCaptionSrc(src) == ~IsCropSrc(src)

CountCrops(leaves) == Cardinality({k \in 1..Len(leaves) : IsCropSrc(leaves[k])})
CountCaptions(leaves) == Cardinality({k \in 1..Len(leaves) : IsCaptionSrc(leaves[k])})
CountQuestionCaptions(leaves) ==
  Cardinality({k \in 1..Len(leaves) : IsQuestionCaption(leaves[k])})
CountPartCaptions(leaves) ==
  Cardinality({k \in 1..Len(leaves) : IsPartCaption(leaves[k])})

TextBucketStacked(f, part, list) ==
  LET regs == RegionsOf(f.wrappers, part, "Text") IN
  Len(regs) > 0 =>
    /\ Len(list) = 1
    /\ IsCaptioned(list[1], part, f.number, regs)

\* C8: a finish reads the sidebar as it is at the click (thumbnail order, each
\* region in the bucket its own part and kind selectors name) and assigns, for
\* the main bucket and for every part bucket with a Text region, exactly one
\* composite to text_images: the caption naming the question (main) or the
\* part, followed by the bucket's Text regions in thumbnail order.
C8_TextStackPerBucket ==
  /\ [](/\ lastFinish.op \in {"main", "done", "aborted"} =>
            TextBucketStacked(lastFinish, <<>>, lastFinish.assigned.text_images)
        /\ lastFinish.op = "done" =>
            \A idx \in 1..Len(lastFinish.partsList) :
              TextBucketStacked(lastFinish, lastFinish.partsList[idx],
                                lastFinish.assigned.parts[idx].text_images))
  /\ [][(lastFinish'.clicked /\ lastFinish'.op # "threw") =>
          /\ lastFinish'.wrappers = SidebarNow
          /\ lastFinish'.number = questions[currentQuestionIndex + 1].question_number
          /\ lastFinish'.partsList = questions[currentQuestionIndex + 1].parts]_vars

\* Question 1 has just been finished with two Text regions in the bucket of
\* part 1.1; the stored response holds the one composite assigned.
C8_Witness ==
  /\ lastFinish.op = "done"
  /\ Len(RegionsOf(lastFinish.wrappers, <<"1", ".", "1">>, "Text")) = 2
  /\ Len(lastFinish.stored[1].parts[1].text_images) = 1
  /\ lastFinish.stored[1].parts[1].text_images
       = lastFinish.assigned.parts[1].text_images
  /\ \E i \in 1..Len(questionResponses) : questionResponses[i] = lastFinish.stored[1]

\* The finish f left in list, for the bucket of part, one composite per region
\* of the kind: the bucket's caption and that region alone.
EachRegionCaptioned(f, part, kind, list) ==
  LET regs == RegionsOf(f.wrappers, part, kind) IN
  /\ Len(list) = Len(regs)
  /\ \A i \in 1..Len(regs) : IsCaptioned(list[i], part, f.number, <<regs[i]>>)

\* C9: a finish assigns to table_images and diagram_images of every bucket
\* one composite per Table region and per Diagram region, each the caption
\* and that single region, so the lengths equal the numbers of regions and a
\* bucket without a region of a kind gets the empty list.
C9_TableDiagramEach ==
  /\ lastFinish.op \in {"main", "done", "aborted"} =>
       /\ EachRegionCaptioned(lastFinish, <<>>, "Table",
                              lastFinish.assigned.table_images)
       /\ EachRegionCaptioned(lastFinish, <<>>, "Diagram",
                              lastFinish.assigned.diagram_images)
  /\ lastFinish.op = "done" =>
       \A idx \in 1..Len(lastFinish.partsList) :
         /\ EachRegionCaptioned(lastFinish, lastFinish.partsList[idx], "Table",
                                lastFinish.assigned.parts[idx].table_images)
         /\ EachRegionCaptioned(lastFinish, lastFinish.partsList[idx], "Diagram",
                                lastFinish.assigned.parts[idx].diagram_images)

\* A question has just been finished with two Table regions in its main
\* bucket: the stored response holds two table composites and no diagram.
C9_Witness ==
  /\ lastFinish.op = "done"
  /\ Len(RegionsOf(lastFinish.wrappers, <<>>, "Table")) = 2
  /\ Len(lastFinish.stored[1].table_images) = 2
  /\ lastFinish.stored[1].diagram_images = <<>>
  /\ lastFinish.stored[1].table_images = lastFinish.assigned.table_images
  /\ \E i \in 1..Len(questionResponses) : questionResponses[i] = lastFinish.stored[1]

\* The list is in ascending order of question display number.
SortedByNumber(list) ==
  \A i, j \in 1..Len(list) :
    i < j => list[i].question_number <= list[j].question_number

ResponsesFor(list, id) == {i \in 1..Len(list) : list[i].question_id = id}

\* C10: every finish that completes leaves questionResponses sorted by
\* question number. In sequential mode it adds one response, the active
\* question's, and removes none. In dropdown mode it puts the active
\* question's response in the place of the one with the same question id,
\* or adds it when there is none, leaves every other response as it was and
\* leaves the active question index unchanged.
C10_FinishStoresSorted ==
  [][lastFinish'.op = "done" =>
       LET r == lastFinish'.stored[1]
           id == r.question_id IN
       /\ SortedByNumber(questionResponses')
       /\ \E i \in 1..Len(questionResponses') : questionResponses'[i] = r
       /\ currentQuestionIndex < Len(questions) =>
            id = questions[currentQuestionIndex + 1].id
       /\ selectMode = "sequential" =>
            /\ Len(questionResponses') = Len(questionResponses) + 1
            /\ \A q \in {questions[k].id : k \in 1..Len(questions)} :
                 Cardinality(ResponsesFor(questionResponses', q))
                   = Cardinality(ResponsesFor(questionResponses, q))
                       + (IF q = id THEN 1 ELSE 0)
       /\ selectMode = "dropdown" =>
            /\ currentQuestionIndex' = currentQuestionIndex
            /\ Cardinality(ResponsesFor(questionResponses', id)) = 1
            /\ \A i \in 1..Len(questionResponses) :
                 questionResponses[i].question_id # id =>
                   \E j \in 1..Len(questionResponses') :
                     questionResponses'[j] = questionResponses[i]
            /\ Len(questionResponses') =
                 IF ResponsesFor(questionResponses, id) = {}
                 THEN Len(questionResponses) + 1
                 ELSE Len(questionResponses)
  ]_vars

\* Sequential mode: question 2 was finished first and question 1 has just
\* been finished behind it; the list shows question 1 first.
C10_Witness ==
  /\ lastFinish.op = "done"
  /\ selectMode = "sequential"
  /\ Len(questionResponses) = 2
  /\ questionResponses[1].question_number = 1
  /\ questionResponses[2].question_number = 2
  /\ lastFinish.stored[1].question_number = 1
  /\ currentQuestionIndex = 2

\* Largest direct-child suffix below parent p, 0 when p has no child.
MaxChildSuffix(segList, p) ==
  LET suffixes == {segList[i][Len(p) + 1] : i \in ChildPositions(segList, p)}
  IN  IF suffixes = {} THEN 0
      ELSE CHOOSE m \in suffixes : \A x \in suffixes : x <= m

\* after holds the labels of before and the label p.k, k one above the
\* largest direct-child suffix of p, written in decimal.
AddsNextChild(before, after, p) ==
  LET added == Append(p, MaxChildSuffix(SegList(before), p) + 1) IN
  /\ IsPermutation(after, Append(before, FormatSegs(added)))
  /\ Len(after) = Len(before) + 1

\* C16: addTopLevelPart (addSubpartToQuestion) adds exactly q.k, k one above
\* the largest top-level suffix, whenever the question has fewer than 6
\* top-level parts, however many nested parts there are, and is refused only
\* when 6 top-level parts exist.
C16_TopLevelAddCountsTopLevelOnly ==
  [][lastCall'.op = "addSubpartToQuestion"
       => LET q == Segs(questionNumber)
              tops == ChildPositions(SegList(partLabels), q)
          IN  IF Cardinality(tops) < 6
              THEN lastCall'.ok /\ AddsNextChild(partLabels, partLabels', q)
              ELSE ~lastCall'.ok]_vars

\* C17: addSubpart(parentLabel) adds exactly parentLabel.k, k one above the
\* largest direct-child suffix of the parent (1 when it has none), and is
\* refused exactly when the parent has 6 segments or 6 direct children;
\* deeper descendants do not count towards either.
C17_SubpartAddNextDirectChild ==
  [][lastCall'.op = "addSubpart"
       => LET p == Segs(lastCall'.label)
              kids == ChildPositions(SegList(partLabels), p)
              refused == Len(p) = 6 \/ Cardinality(kids) = 6
          IN  /\ Len(p) <= 6 /\ Cardinality(kids) <= 6
              /\ lastCall'.ok <=> ~refused
              /\ lastCall'.ok => AddsNextChild(partLabels, partLabels', p)
              /\ ~lastCall'.ok => partLabels' = partLabels]_vars

\* A subpart was just added below a parent that has at least 6 descendants,
\* fewer than 6 of them direct children.
C17_Witness ==
  /\ lastCall.op = "addSubpart" /\ lastCall.ok
  /\ \E segList \in {SegList(partLabels)} :
       LET p == Segs(lastCall.label) IN
       /\ Cardinality({i \in 1..Len(segList) :
            Len(segList[i]) > Len(p) /\ IsSegPrefix(p, segList[i])}) >= 6
       /\ Cardinality(ChildPositions(segList, p)) \in 2..5

\* C15: the stage-to-role function maps the stages 0, 1, 2 to question_paper,
\* 3 to marking_scheme, 4 to solution_script, 5..8 to answer_script, and
\* every other integer, negative or above 8, to no role (invalid).
C15_StageToRole ==
  document_type # "null" =>
    document_type =
      CASE currentStage \in 0..2 -> "question_paper"
        [] currentStage = 3 -> "marking_scheme"
        [] currentStage = 4 -> "solution_script"
        [] currentStage \in 5..8 -> "answer_script"
        [] OTHER -> "undefined"

\* Positions of the requests of one kind, whatever the invocation.
CallsOfKind(kind) == {i \in 1..Len(calls) : calls[i].kind = kind}

\* The request has completed with a success status.
Succeeded(call) == call.outcome \in {"ok_json", "ok_text"}

\* The request has completed, by a failed fetch or with an error status.
Failed(call) == call.outcome \in {"error_json", "error_text", "network_error"}

\* C11: handleSubmit issues the extract/process request only after every
\* per-question submission request of that submit has completed and
\* succeeded (no fetch failure, a success status); if one of them fails, no
\* extract/process request is issued in that submit.
C11_ExtractAfterAllSubmitsSucceed ==
  \A i \in CallsOfKind("process-text-images") :
    \A j \in CallsOf(calls, "question_response", calls[i].run) :
      Succeeded(calls[j])

\* C12: when the extract/process request fails (fetch failure or error
\* status) the stage is not advanced: postExamStage is not called, so that
\* submit writes no stage 7 and sends no grading request.
C12_FailedExtractKeepsStage ==
  \A i \in CallsOfKind("process-text-images") :
    Failed(calls[i]) =>
      /\ CallsOf(calls, "stage", calls[i].run) = {}
      /\ CallsOf(calls, "grade-exam", calls[i].run) = {}

\* C13: within one submission session the extract/process request is issued
\* at most once, however often the submission is triggered.
C13_ExtractAtMostOnce ==
  Cardinality(CallsOfKind("process-text-images")) <= 1

C19_DisplayedNumbersContiguous ==
  /\ Len(regionSelections) = Len(thumbnails)
  /\ \A j \in 1..Len(regionSelections) :
       /\ regionSelections[j].number \in 1..Len(thumbnails)
       /\ thumbnails[regionSelections[j].number].regionId
            = regionSelections[j].regionId
  /\ \A j, k \in 1..Len(regionSelections) :
       regionSelections[j].number = regionSelections[k].number => j = k

\* Five regions were captured and the second was deleted: the regions 1, 3,
\* 4 and 5 remain.
C19_Witness ==
  /\ cropsMade = 5
  /\ [j \in 1..Len(regionSelections) |-> regionSelections[j].regionId]
       = <<1, 3, 4, 5>>
  /\ [j \in 1..Len(regionSelections) |-> regionSelections[j].number]
       = <<1, 2, 3, 4>>

\* The rectangle the gesture in progress spans: in box mode from the press to
\* the last pointer position, in freehand mode the bounding box of the path.
\* What a Region list stores: id, content-kind and PartLabel of each region,
\* without the state of the markers' controls.
StoredRegions(regions) ==
  [j \in 1..Len(regions) |->
     [regionId |-> regions[j].regionId, kind |-> regions[j].kind,
      part |-> regions[j].part]]

Candidate ==
  IF cutMode = "box"
  THEN [width |-> Abs(trace[Len(trace)].x - trace[1].x),
        height |-> Abs(trace[Len(trace)].y - trace[1].y)]
  ELSE [width |-> getBoundingBox(trace).width,
        height |-> getBoundingBox(trace).height]

\* C18: on end-selection a Region is stored if and only if the candidate
\* rectangle (or the bounding box of the freehand outline) is at least 5
\* display pixels wide and high; the stored Region starts with kind Text and
\* no part label, and a rejected candidate leaves the Region list and the
\* sequence counter unchanged.
C18_StoredIffLargeEnough ==
  [][(isSelecting /\ ~isSelecting')
       => IF Candidate.width >= 5 /\ Candidate.height >= 5
          THEN /\ Len(regionSelections') = Len(regionSelections) + 1
               /\ SubSeq(StoredRegions(regionSelections'), 1, Len(regionSelections))
                    = StoredRegions(regionSelections)
               /\ regionSelections'[Len(regionSelections')].kind = "Text"
               /\ regionSelections'[Len(regionSelections')].part = <<>>
          ELSE /\ StoredRegions(regionSelections') = StoredRegions(regionSelections)
               /\ regionCounter' = regionCounter]_vars

\* C20: saving a manual reorder keeps exactly the same stored regions in the
\* thumbnail list, none lost and none duplicated, in the order the user
\* arranged in the dialog; a finish that follows assembles from that list.
C20_ReorderKeepsRegions ==
  [][saveEditOrder
       => /\ IsPermutation(thumbnails', thumbnails)
          /\ thumbnails' = modalOrder]_vars

\* ------------------------------------------------------------------------
\* Region controls and the mouse button during a gesture
\* ------------------------------------------------------------------------
\* Every region stored before the step is stored after it, with the same
\* content-kind and PartLabel.
RegionsKept ==
  \A j \in 1..Len(regionSelections) :
    \E k \in 1..Len(regionSelections') :
      StoredRegions(regionSelections')[k] = StoredRegions(regionSelections)[j]

\* C21: while a selection gesture is active (from begin-selection until
\* end-selection) no stored Region is deleted and no Region's content-kind
\* or PartLabel is changed, through any control that offers these actions:
\* the marker's selectors and delete control, and the thumbnail's delete
\* control. Steps that switch the active question are not region controls.
C21_NoRegionEditWhileSelecting ==
  [][(isSelecting /\ currentQuestionIndex' = currentQuestionIndex)
       => RegionsKept]_vars

\* C29: releasing the pointer always ends the in-flight gesture: after any
\* release, wherever it happens, the controller is no longer selecting and
\* the controls disabled at begin-selection are enabled again.
C29_ReleaseEndsGesture ==
  [][(pointerDown /\ ~pointerDown')
       => /\ ~isSelecting'
          /\ \A j \in 1..Len(regionSelections') :
               regionSelections'[j].pointerEvents = "auto"]_vars

\* The rectangle spanned by two pointer positions.
SpannedRect(a, b) ==
  [minX |-> Min2(a.x, b.x), minY |-> Min2(a.y, b.y),
   width |-> Abs(b.x - a.x), height |-> Abs(b.y - a.y)]

\* C28: every stored box Region has the rectangle spanned by the anchor
\* point and the final pointer position of the gesture that just ended; a
\* candidate rectangle left over from an earlier rejected or abandoned
\* gesture is never used to create a Region.
C28_BoxRegionFromOwnGesture ==
  [][(isSelecting /\ ~isSelecting' /\ cutMode = "box"
        /\ Len(regionSelections') > Len(regionSelections))
       => regionSelections'[Len(regionSelections')].rect
            = <<SpannedRect(trace[1], trace[Len(trace)])>>]_vars

\* ------------------------------------------------------------------------
\* The role check of load_pdf_in_cropper
\* ------------------------------------------------------------------------
\* C22: when the user is not a professor (the mode the role callback sets is
\* then 'sequential') and the document role is not answer_script, the capture
\* flow is blocked entirely: no Region is captured and no QuestionResponse is
\* appended to the collection or submitted to the server.
C22_UnauthorizedFlowBlocked ==
  (selectMode = "sequential" /\ document_type # "answer_script")
    => /\ regionSelections = <<>>
       /\ questionResponses = <<>>
       /\ CallsOfKind("question_response") = {}

\* C23: empty submission content is a validation error with no state
\* mutation. While no region has been captured in the session, every finish
\* is of a question without regions and no response holds an image: no
\* response is added or replaced, and a submit sends no request, neither a
\* per-question one nor the extract call nor a stage write.
C23_EmptyContentNoMutation ==
  cropsMade = 0 => (questionResponses = <<>> /\ calls = <<>>)

\* ------------------------------------------------------------------------
\* Geometry of the crop
\* ------------------------------------------------------------------------
\* The crop the claim prescribes for a display rectangle at a render scale.
ScaledCrop(rect, r) ==
  [sx |-> rect.minX * r, sy |-> rect.minY * r,
   sw |-> rect.width * r, sh |-> rect.height * r,
   w |-> rect.width * r, h |-> rect.height * r]

\* C24: for a box selection with display rectangle (x, y, w, h) on a page
\* whose render scale is r, the crop reads the source rectangle (x*r, y*r,
\* w*r, h*r) of the rendered page and produces a raster of exactly w*r by
\* h*r pixels; for a freehand outline the raster has the size of the
\* outline's bounding box times r. The display rectangle is the one spanned
\* by the gesture's two pointer positions.
C24_CropScaledByRenderScale ==
  [][(isSelecting /\ ~isSelecting'
        /\ Len(regionSelections') > Len(regionSelections))
       => LET region == regionSelections'[Len(regionSelections')]
              display == SpannedRect(trace[1], trace[2])
          IN  /\ region.rect = <<display>>
              /\ region.crop = <<ScaledCrop(display, 2)>>]_vars

\* A 10 x 7 box selection at (0, 3) and a 7 x 10 outline at (3, 0) have been
\* cropped at scale 2.
C24_Witness ==
  \E j \in 1..Len(regionSelections) :
    /\ regionSelections[j].crop # <<>>
    /\ regionSelections[j].rect # <<>>
    /\ regionSelections[j].rect[1].width # regionSelections[j].rect[1].height
    /\ regionSelections[j].rect[1].minX # regionSelections[j].rect[1].minY
    /\ regionSelections[j].crop[1].w = 2 * regionSelections[j].rect[1].width
    /\ regionSelections[j].crop[1].w \in {14, 20}

C26_OneResponsePerQuestion ==
  \A i, j \in 1..Len(questionResponses) :
    questionResponses[i].question_id = questionResponses[j].question_id => i = j

\* The images of the buckets of the question and of its parts that a
\* response holds.
ResponseImages(r) ==
  [main |-> <<r.text_images, r.table_images, r.diagram_images>>,
   parts |-> [i \in 1..Len(r.parts) |->
                <<r.parts[i].part_label, r.parts[i].text_images,
                  r.parts[i].table_images, r.parts[i].diagram_images>>]]

\* C27: when a question switch, a Redo or another finish happens while a
\* finish is still awaiting its image loads, the QuestionResponse that the
\* finish stores is for the question that was active when the finish was
\* requested and holds exactly what was assembled from that question's
\* regions; no images are written into the response of another question.
C27_FinishStoresItsOwnQuestion ==
  lastFinish.op = "done" =>
    /\ lastFinish.stored[1].question_number = lastFinish.number
    /\ ResponseImages(lastFinish.stored[1]) = ResponseImages(lastFinish.assigned)

\* ------------------------------------------------------------------------
\* The stage write and the grading request
\* ------------------------------------------------------------------------
\* C30: a grading request is sent only after the stage write of 7 has
\* succeeded: every grading request follows a stage request of the same
\* submit that wrote 7 and completed with a success status. A failed stage
\* write (fetch failure or error status) is followed by no grading request.
C30_GradeOnlyAfterStageWritten ==
  \A i \in CallsOfKind("grade-exam") :
    \E j \in 1..(i - 1) :
      /\ calls[j].kind = "stage"
      /\ calls[j].run = calls[i].run
      /\ calls[j].exam_stage = GradingStarted
      /\ Succeeded(calls[j])

MaxLoadedLabels == 4

\* Labels of the lists that renderQuestions receives in question.part_labels
\* and hands to renderPartLabels as they are.
LoadedLabels == {L21, L221, L23, L231}

\* The loaded lists: sorted in the sortPartLabels order, no label twice.
LoadedLists ==
  {labels \in UNION {[1..n -> LoadedLabels] : n \in 0..Cardinality(LoadedLabels)} :
     \A i \in 1..(Len(labels) - 1) :
       ComparePartLabels(labels[i], labels[i + 1]) < 0}

InitLoaded ==
  /\ questionNumber = <<"2">>
  /\ partLabels \in LoadedLists
  /\ lastCall = NoCall
  /\ SortIdle /\ StitchIdle /\ CropIdle /\ PageIdle

NextLoaded ==
  \/ addSubpartToQuestionUpTo(MaxLoadedLabels)
  \/ addSubpartUpTo(MaxLoadedLabels)
  \/ removePart

\* The part editor of one question card whose list came from the server.
SpecLoaded == InitLoaded /\ [][NextLoaded]_vars

Answered(list) == {list[i].question_id : i \in 1..Len(list)}

\* C33: in sequential mode each finish appends the response of the active
\* question and advances the active question index by exactly one; once a
\* question has been finished, no later capture or finish adds regions to it
\* or changes its stored response, unless that question is explicitly redone.
\* The first conjunct is about the step that completes a finish; the second
\* says that a stored response stays as it is in every step that does not
\* remove its question's responses (a Redo); the third that the question
\* which captures and finishes work on is not one that has a stored response.
C33_SequentialFinishAdvances ==
  /\ [][(selectMode = "sequential" /\ lastFinish'.op = "done")
          => /\ currentQuestionIndex' = currentQuestionIndex + 1
             /\ \E k \in 1..Len(questionResponses') :
                  /\ questionResponses'[k].question_number = lastFinish'.number
                  /\ RemoveAt(questionResponses', k) = questionResponses]_vars
  /\ [][selectMode = "sequential"
          => \A i \in 1..Len(questionResponses) :
               \/ \E j \in 1..Len(questionResponses') :
                    questionResponses'[j] = questionResponses[i]
               \/ questionResponses[i].question_id \notin Answered(questionResponses')]_vars
  /\ [](selectMode = "sequential" /\ currentQuestionIndex < Len(questions)
          => questions[currentQuestionIndex + 1].id \notin Answered(questionResponses))

\* C34: in sequential mode, whenever the submit control is shown, the
\* response collection contains a response for every question of the exam;
\* this also holds after any Redo.
C34_SubmitShownMeansAllAnswered ==
  (selectMode = "sequential" /\ submitShown)
    => \A i \in 1..Len(questions) : questions[i].id \in Answered(questionResponses)

\* ------------------------------------------------------------------------
\* handleSubmit on the response of a question with two parts
\* ------------------------------------------------------------------------
\* Most regions captured for the question.
MaxPayloadRegions == 3

\* An exam of one question, number 3, with the parts 3.1 and 3.2.
PayloadQuestions ==
  << [id |-> 21, question_number |-> 3,
      parts |-> << <<"3", ".", "1">>, <<"3", ".", "2">> >>] >>

\* What the sidebar can hold at the finish of a question with the given
\* parts: up to maxn thumbnails, the crops first, first + 1, ... of the
\* session, each region of one of the kinds and assigned to the question
\* ("") or to one of its parts.
Sidebars(parts, kinds, first, maxn) ==
  UNION {{[i \in 1..n |->
             [src |-> CropImage(first + i - 1), kind |-> ks[i], part |-> ps[i]]] :
            ks \in [1..n -> kinds],
            ps \in [1..n -> {<<>>} \cup {parts[k] : k \in 1..Len(parts)}]} :
         n \in 0..maxn}

\* saveCurrentSelections run to its end on the given sidebar for question
\* qs[idx + 1], nothing else happening meanwhile.
FinishOf(qs, idx, wrappers) ==
  LET f == [phase |-> "parts", clicked |-> FALSE, wrappers |-> wrappers,
            number |-> qs[idx + 1].question_number,
            partsList |-> qs[idx + 1].parts,
            target |-> 1, targetParts |-> Len(qs[idx + 1].parts),
            assigned |-> createTempResponse(qs, idx, 0)] IN
  [f EXCEPT !.assigned = Apply(Apply(@, f, "main", f.targetParts),
                               f, "parts", f.targetParts)]

\* The session in dropdown mode right after the Done handler has stored the
\* response of the question.
PayloadInit ==
  \E wrappers \in Sidebars(PayloadQuestions[1].parts, Kinds, 1, MaxPayloadRegions) :
    LET f == FinishOf(PayloadQuestions, 0, wrappers)
        copy == DeepCopy(f.assigned) IN
    /\ selectMode = "dropdown"
    /\ questions = PayloadQuestions
    /\ currentQuestionIndex = 0
    /\ tempResponse = createTempResponse(PayloadQuestions, 0, 1)
    /\ questionResponses = <<copy>>
    /\ thumbnails = <<>>
    /\ regionSelections = <<>>
    /\ regionCounter = 1
    /\ inflight = <<>>
    /\ submitShown = FALSE
    /\ processedResponses = <<>>
    /\ cropsMade = Len(wrappers)
    /\ lastFinish = Report("done", f, <<copy>>)

InitPayload == TreeIdle /\ SortIdle /\ StitchIdle /\ PayloadInit /\ PageIdle

NextPayload == handleSubmit /\ UNCHANGED <<treeVars, sortVars, stitchVars, pageVars>>

\* handleSubmit applied once to each bounded response.
SpecPayload == InitPayload /\ [][NextPayload]_vars

\* The lists of one kind of the first n parts, in part order.
RECURSIVE PartImages(_, _, _)
PartImages(parts, field, n) ==
  IF n = 0 THEN <<>> ELSE PartImages(parts, field, n - 1) \o parts[n][field]

\* C35: on final submission of a question that has no question-level Text
\* composite but at least one part-level Text composite, the single
\* submitted text image consists of exactly one leading caption naming the
\* question (not a part), followed by the part-level composites in part
\* order.
C35_PartsOnlyTextGetsQuestionCaption ==
  \A i \in 1..Len(processedResponses) :
    LET r == questionResponses[i]
        p == processedResponses[i]
        partTexts == PartImages(r.parts, "text_images", Len(r.parts)) IN
    (Len(r.text_images) = 0 /\ Len(partTexts) > 0)
      => /\ Len(p.text_images) = 1
         /\ LET leaves == Leaves(p.text_images[1]) IN
            /\ NamesQuestion(leaves[1], r.question_number)
            /\ CountQuestionCaptions(leaves) = 1
            /\ Tail(leaves) = LeavesOfAll(partTexts)

\* The response submitted has Text in both parts and none at question level.
C35_Witness ==
  \E i \in 1..Len(processedResponses) :
    LET r == questionResponses[i]
        p == processedResponses[i] IN
    /\ Len(r.text_images) = 0
    /\ Len(r.parts[1].text_images) = 1
    /\ Len(r.parts[2].text_images) = 1
    /\ Len(p.text_images) = 1
    /\ CountPartCaptions(Leaves(p.text_images[1])) = 2
    /\ CountCrops(Leaves(p.text_images[1])) >= 2

\* The regions of a kind among the wrappers a finish read.
CountKind(wrappers, kind) ==
  Cardinality({k \in 1..Len(wrappers) : wrappers[k].kind = kind})

\* C36: on final submission the payload's table_images (respectively
\* diagram_images) is the question-level list followed by each part's list
\* in part order, every composite passed through unchanged; its length is
\* the number of Table (respectively Diagram) regions assembled for that
\* question, here the regions the finish before the submission read.
C36_TablesAndDiagramsFlattened ==
  /\ [](\A i \in 1..Len(processedResponses) :
          LET r == questionResponses[i]
              p == processedResponses[i] IN
          /\ p.table_images
               = r.table_images \o PartImages(r.parts, "table_images", Len(r.parts))
          /\ p.diagram_images
               = r.diagram_images \o PartImages(r.parts, "diagram_images", Len(r.parts)))
  /\ [][(lastFinish.op = "done" /\ Len(processedResponses') = 1)
          => /\ Len(processedResponses'[1].table_images)
                  = CountKind(lastFinish.wrappers, "Table")
             /\ Len(processedResponses'[1].diagram_images)
                  = CountKind(lastFinish.wrappers, "Diagram")]_vars

\* A Table at question level and one in each part have been submitted in one
\* list of three.
C36_Witness ==
  /\ Len(processedResponses) = 1
  /\ Len(questionResponses[1].table_images) = 1
  /\ Len(questionResponses[1].parts[1].table_images) = 1
  /\ Len(questionResponses[1].parts[2].table_images) = 1
  /\ Len(processedResponses[1].table_images) = 3

\* ------------------------------------------------------------------------
\* handleSubmit: the image loads before the payloads are posted
\* ------------------------------------------------------------------------
\* Most Text regions of the second question in the submitted collection.
MaxStallRegions == 2

\* One handleSubmit invocation is followed through its loads.
MaxStallRuns == 1

\* "new Image(); img.src = ...": a load that the browser will end by onload
\* or onerror, or never. owner is the position of the response among
\* questionResponses, role what the image is to its composite.
ImageLoad(run, owner, role, src) ==
  [kind |-> "image-load", run |-> run, outcome |-> "pending",
   owner |-> owner, role |-> role, src |-> src]

\* How a load ends: img.onload or img.onerror.
LoadOutcomes == {"loaded", "broken"}

\* Positions of the loads of one role for one response of an invocation.
LoadsOf(cs, run, owner, role) ==
  {i \in 1..Len(cs) : /\ cs[i].kind = "image-load" /\ cs[i].run = run
                      /\ cs[i].owner = owner /\ cs[i].role = role}

\* "[...topLevel, ...partsLevel]", which is partsLevel when topLevel is empty
TextSources(response) ==
  response.text_images \o FlatMapParts(response.parts, "text_images")

\* "allTextDataURIs.map(src => loadImageFromDataUrl(src))" of every response
RECURSIVE SourceLoads(_, _, _)
SourceLoads(list, run, n) ==
  IF n = 0 THEN <<>>
  ELSE SourceLoads(list, run, n - 1) \o
       [k \in 1..Len(TextSources(list[n])) |->
          ImageLoad(run, n, "source", TextSources(list[n])[k])]

\* The async callback of questionResponses.map has returned for response
\* owner: it awaited nothing, or every load it awaited has ended with onload.
PayloadBuilt(cs, run, owner) ==
  LET r == questionResponses[owner]
      last == IF Len(r.text_images) > 0 THEN "source" ELSE "label" IN
  \/ TextSources(r) = <<>>
  \/ /\ LoadsOf(cs, run, owner, last) # {}
     /\ \A i \in LoadsOf(cs, run, owner, last) : cs[i].outcome = "loaded"

\* "await Promise.all(questionResponses.map(...))" has resolved: the payloads
\* are posted, one request per response.
PostPayloads(run, rs, cs) ==
  /\ processedResponses' = [i \in 1..Len(questionResponses) |->
                              Processed(questionResponses[i], i - 1)]
  /\ runs' = rs
  /\ calls' = cs \o [i \in 1..Len(questionResponses) |->
                       NewCall("question_response", run)]

\* Click on #submit-btn: handleSubmit up to its first await that has to wait.
SubmitStart ==
  /\ selectMode = "dropdown" \/ submitShown
  /\ Len(runs) < MaxStallRuns
  /\ LET run == Len(runs) + 1
         loads == SourceLoads(questionResponses, run, Len(questionResponses)) IN
     IF loads = <<>>
     THEN PostPayloads(run, Append(runs, "posting"), calls)
     ELSE /\ runs' = Append(runs, "processing")
          /\ calls' = calls \o loads
          /\ processedResponses' = <<>>
  /\ lastFinish' = NoFinish
  /\ UNCHANGED <<selectMode, questions, currentQuestionIndex, tempResponse,
                 questionResponses, thumbnails, regionSelections, regionCounter,
                 inflight, submitShown, cropsMade>>

\* One image load of handleSubmit ends. onerror rejects loadImageFromDataUrl
\* and with it Promise.all, and a caption that failed to load makes drawImage
\* throw: handleSubmit ends there. After onload the callback of the response
\* goes on: with no question-level text the stitched parts are loaded, then
\* the caption; once every callback has returned the payloads are posted.
SubmitLoadSettled ==
  \E i \in 1..Len(calls), outcome \in LoadOutcomes :
    /\ calls[i].kind = "image-load" /\ calls[i].outcome = "pending"
    /\ LET run == calls[i].run
           owner == calls[i].owner
           r == questionResponses[owner]
           cs == [calls EXCEPT ![i].outcome = outcome]
           next ==
             IF /\ calls[i].role = "source"
                /\ Len(r.text_images) = 0
                /\ \A j \in LoadsOf(cs, run, owner, "source") : cs[j].outcome = "loaded"
             THEN Append(cs, ImageLoad(run, owner, "merged",
                                       concatenateImages(TextSources(r))))
             ELSE IF calls[i].role = "merged"
             THEN Append(cs, ImageLoad(run, owner, "label",
                                       createTextImage(QNumText(r.question_number))))
             ELSE cs
       IN  IF runs[run] # "processing"
           THEN /\ calls' = cs
                /\ UNCHANGED <<runs, processedResponses>>
           ELSE IF outcome = "broken"
           THEN /\ calls' = cs
                /\ runs' = [runs EXCEPT ![run] = "threw"]
                /\ UNCHANGED processedResponses
           ELSE IF \A k \in 1..Len(questionResponses) : PayloadBuilt(next, run, k)
           THEN PostPayloads(run, [runs EXCEPT ![run] = "posting"], next)
           ELSE /\ calls' = next
                /\ UNCHANGED <<runs, processedResponses>>
    /\ UNCHANGED <<selectMode, questions, currentQuestionIndex, tempResponse,
                   questionResponses, thumbnails, regionSelections, regionCounter,
                   inflight, submitShown, cropsMade, lastFinish>>

\* Sequential mode after the Done click for the last of the two questions:
\* both responses are stored and the submit button is shown.
StallInit ==
  \E w1 \in Sidebars(ExamQuestions[1].parts, {"Text"}, 1, 1) :
    \E w2 \in Sidebars(ExamQuestions[2].parts, {"Text"}, Len(w1) + 1, MaxStallRegions) :
      LET f1 == FinishOf(ExamQuestions, 0, w1)
          f2 == FinishOf(ExamQuestions, 1, w2)
          r1 == [f1.assigned EXCEPT !.obj = 1]
          r2 == [f2.assigned EXCEPT !.obj = 2] IN
      /\ selectMode = "sequential"
      /\ questions = ExamQuestions
      /\ currentQuestionIndex = 2
      /\ tempResponse = r2
      /\ questionResponses = renderAllResponses(<<r1, r2>>)
      /\ thumbnails = <<>>
      /\ regionSelections = <<>>
      /\ regionCounter = 1
      /\ inflight = <<>>
      /\ submitShown = TRUE
      /\ processedResponses = <<>>
      /\ cropsMade = Len(w1) + Len(w2)
      /\ lastFinish = Report("done", f2, <<r2>>)

InitStall == TreeIdle /\ SortIdle /\ StitchIdle /\ StallInit /\ PageIdle

NextStall ==
  \/ (SubmitStart /\ UNCHANGED <<treeVars, sortVars, stitchVars, stageVars, overlayVars>>)
  \/ (SubmitLoadSettled
        /\ UNCHANGED <<treeVars, sortVars, stitchVars, stageVars, overlayVars>>)

\* The final submission of two responses, image load by image load.
SpecStall == InitStall /\ [][NextStall]_vars

\* C31: an image load that never completes stalls only the assembly of the
\* question it belongs to: during final submission the payloads of all other
\* questions are still built and submitted. A load may stay pending for
\* ever, so in every state of a submission that has not failed, a response
\* none of whose loads is outstanding has its payload posted.
C31_StalledLoadStallsOneQuestion ==
  \A run \in 1..Len(runs), owner \in 1..Len(questionResponses) :
    (/\ runs[run] # "threw"
     /\ \A i \in 1..Len(calls) :
          (calls[i].kind = "image-load" /\ calls[i].run = run /\ calls[i].owner = owner)
            => calls[i].outcome = "loaded"
     /\ PayloadBuilt(calls, run, owner))
      => Cardinality(CallsOf(calls, "question_response", run)) >= owner

\* ------------------------------------------------------------------------
\* saveCurrentSelections: the image loads of the question's text stack
\* ------------------------------------------------------------------------
\* Most image loads a capture session starts.
MaxJoinLoads == 6

\* The saveCurrentSelections invocations that have started a caption load.
RunsStarted(cs) ==
  Cardinality({i \in 1..Len(cs) : cs[i].kind = "image-load" /\ cs[i].role = "label"})

\* A plausible slip: Promise.race for Promise.all, so that the stitch runs
\* once the first region image has loaded.
AllSettled_Race(cs, loads) == \E i \in loads : cs[i].outcome # "pending"

\* "await Promise.all(mainBucket.Text.map(src => ... waitForImageLoad(img)))":
\* every one of the loads has ended, by onload or by onerror.
AllSettled(cs, loads) == \A i \in loads : cs[i].outcome # "pending"

\* The image of a region as drawImage finds it: naturalWidth and
\* naturalHeight are 0 until the image has loaded.
ImageSeen(cs, loads, src) ==
  IF \E i \in loads : cs[i].src = src /\ cs[i].outcome = "loaded"
  THEN src
  ELSE [src EXCEPT !.w = 0, !.h = 0]

\* Click on #part-btn: saveCurrentSelections up to "await
\* waitForImageLoad(labelImg)" of the question's text stack; with no Text
\* region of the question it goes on as FinishClick describes.
FinishStart ==
  IF /\ currentQuestionIndex < Len(questions)
     /\ Bucket(Snapshot.wrappers, <<>>, "Text") # <<>>
  THEN /\ Len(inflight) < MaxInFlight
       /\ Len(questionResponses) + Len(inflight) < MaxResponses
       /\ Len(calls) + 1 + Len(Bucket(Snapshot.wrappers, <<>>, "Text")) <= MaxJoinLoads
       /\ inflight' = Append(inflight, [run |-> RunsStarted(calls) + 1]
                                          @@ [Snapshot EXCEPT !.clicked = FALSE])
       /\ calls' = Append(calls,
                     ImageLoad(RunsStarted(calls) + 1, currentQuestionIndex + 1, "label",
                               createTextImage(QNumText(Snapshot.number))))
       /\ lastFinish' = Report("clicked", Snapshot, <<>>)
       /\ processedResponses' = <<>>
       /\ UNCHANGED <<selectMode, questions, currentQuestionIndex, tempResponse,
                      questionResponses, thumbnails, regionSelections, regionCounter,
                      submitShown, cropsMade, runs>>
  ELSE FinishClick /\ UNCHANGED <<runs, calls>>

\* One image load of the text stack ends. After the caption the region
\* images are loaded together; when Promise.all resolves the stack is
\* stitched from the images as they are, drawImage throwing for an image
\* whose load ended by onerror, and saveCurrentSelections goes on.
StackLoadSettled ==
  \E i \in 1..Len(calls), outcome \in LoadOutcomes :
    /\ calls[i].kind = "image-load" /\ calls[i].outcome = "pending"
    /\ LET run == calls[i].run
           owner == calls[i].owner
           cs == [calls EXCEPT ![i].outcome = outcome]
           regions == LoadsOf(cs, run, owner, "region")
           waiting == {k \in 1..Len(inflight) : inflight[k].run = run}
       IN  IF waiting = {}
           THEN /\ calls' = cs
                /\ UNCHANGED <<cropVars, runs>>
           ELSE LET k == TheOne(waiting)
                    f == inflight[k]
                    texts == Bucket(f.wrappers, <<>>, "Text") IN
                IF calls[i].role = "label"
                THEN /\ calls' = cs \o [n \in 1..Len(texts) |->
                                          ImageLoad(run, owner, "region", texts[n])]
                     /\ UNCHANGED <<cropVars, runs>>
                ELSE IF ~AllSettled(cs, regions)
                THEN /\ calls' = cs
                     /\ UNCHANGED <<cropVars, runs>>
                ELSE IF \E j \in regions \cup LoadsOf(cs, run, owner, "label") :
                          cs[j].outcome = "broken"
                THEN /\ calls' = cs
                     /\ inflight' = RemoveAt(inflight, k)
                     /\ lastFinish' = Report("aborted", f, <<>>)
                     /\ processedResponses' = <<>>
                     /\ UNCHANGED <<selectMode, questions, currentQuestionIndex,
                                    tempResponse, questionResponses, thumbnails,
                                    regionSelections, regionCounter, submitShown,
                                    cropsMade, runs>>
                ELSE /\ calls' = cs
                     /\ UNCHANGED runs
                     /\ AfterMain([f EXCEPT
                                     !.wrappers = [n \in 1..Len(@) |->
                                                     [@[n] EXCEPT !.src =
                                                        ImageSeen(cs, regions, @)]]],
                                  RemoveAt(inflight, k))

InitJoin == TreeIdle /\ SortIdle /\ StitchIdle /\ CropIdle /\ PageIdle

NextJoin ==
  \/ (Crop /\ UNCHANGED <<treeVars, sortVars, stitchVars, pageVars>>)
  \/ (FinishStart /\ UNCHANGED <<treeVars, sortVars, stitchVars, stageVars, overlayVars>>)
  \/ (StackLoadSettled
        /\ UNCHANGED <<treeVars, sortVars, stitchVars, stageVars, overlayVars>>)

\* A sequential capture session of Text regions, image load by image load.
SpecJoin == InitJoin /\ [][NextJoin]_vars

\* C32: a composite is stitched only after every image-load operation of
\* its inputs (the caption and all region images of that bucket or question)
\* has completed, whatever order the loads finish in; no composite is
\* produced that is missing one of its input images. Stated for the step in
\* which a finish stores its response: no load of that finish is pending,
\* and the text composite shows the caption and every Text region the click
\* found in the sidebar, each drawn with its size.
C32_StitchAfterAllLoads ==
  [][(lastFinish'.op = "done" /\ lastFinish' # lastFinish)
       => LET regs == RegionsOf(lastFinish'.wrappers, <<>>, "Text")
              made == lastFinish'.stored[1].text_images IN
          /\ regs # <<>> =>
               \E run \in 1..RunsStarted(calls) :
                 /\ \A k \in 1..Len(inflight') : inflight'[k].run # run
                 /\ \E k \in 1..Len(inflight) : inflight[k].run = run
                 /\ \A i \in 1..Len(calls') :
                      (calls'[i].kind = "image-load" /\ calls'[i].run = run)
                        => calls'[i].outcome # "pending"
          /\ regs # <<>> =>
               /\ Len(made) = 1
               /\ Leaves(made[1]) = <<QNumText(lastFinish'.number)>> \o regs
               /\ \A k \in 1..Len(made[1].draws) :
                    made[1].draws[k].img.w > 0 /\ made[1].draws[k].img.h > 0]_vars

\* A finish has stored the stack of two Text regions under its caption.
C32_Witness ==
  /\ lastFinish.op = "done"
  /\ Len(lastFinish.wrappers) = 2
  /\ Len(lastFinish.stored[1].text_images) = 1
  /\ Len(lastFinish.stored[1].text_images[1].draws) = 3
  /\ \A i \in 1..Len(calls) : calls[i].outcome = "loaded"

====
